---- MODULE Spec2Model ----
(***************************************************************************)
(* Model of the Auralis fingerprint server (fingerprint-server/src) and of *)
(* the fingerprint entry point of the DSP library (vendor/auralis-dsp).    *)
(*                                                                         *)
(* Numbers.  The program computes in f64/f32; the model computes in fixed  *)
(* point over the integers:                                                *)
(*   - a sample is an integer in -MaxAmp..MaxAmp, full scale 1.0 = MaxAmp; *)
(*   - a buffer is run-length encoded, a sequence of runs <<value, count>>,*)
(*     so that buffers of FFT_SIZE and more samples stay small;            *)
(*   - a spectrum magnitude is an integer in units of the 1e-10 floor of   *)
(*     compute_fft_spectrum, so the floor itself is 1;                     *)
(*   - every fingerprint field is held in thousandths (milli-units);       *)
(*   - 10*log10 is taken rounded down to a whole dB (DeciLog).             *)
(* rustfft is a library outside the repository: the transform of an        *)
(* all-zero frame is computed (all zero), the transform of any other frame *)
(* is the spectrum shape the behaviour is started with.                    *)
(***************************************************************************)
EXTENDS Integers, Sequences, FiniteSets, TLC

FFT_SIZE == 2048
HOP_LENGTH == 512

\* Full scale (1.0) in sample units.
MaxAmp == 10
\* Duration in seconds of the long test buffers.
Seconds == 2
\* Longest interleaved buffer handed to compute_complete_fingerprint.
MaxDspLen == 4
\* Units of one parallel loop: the frames of yin, the kernels of convolve_cqt.
ParUnits == 3
\* Largest worker pool.
MaxWorkers == 2

-----------------------------------------------------------------------------
(* Integer helpers *)

Abs(x) == IF x < 0 THEN -x ELSE x
Max(a, b) == IF a >= b THEN a ELSE b
Min(a, b) == IF a <= b THEN a ELSE b
\* f64::clamp / .max(lo).min(hi)
Clamp(x, lo, hi) == IF x < lo THEN lo ELSE IF x > hi THEN hi ELSE x
\* ceil(a / b) for a >= 0, b > 0
CeilDiv(a, b) == (a + b - 1) \div b

RECURSIVE SumSeq(_)
SumSeq(s) == IF s = <<>> THEN 0 ELSE Head(s) + SumSeq(Tail(s))

RECURSIVE MaxSeq(_)
MaxSeq(s) == IF s = <<>> THEN 0 ELSE Max(Head(s), MaxSeq(Tail(s)))

\* floor(sqrt(n)) by bisection on [lo, hi), n < 2^31
RECURSIVE SqrtIn(_, _, _)
SqrtIn(n, lo, hi) ==
    IF hi - lo <= 1 THEN lo
    ELSE LET mid == (lo + hi) \div 2
         IN IF mid * mid <= n THEN SqrtIn(n, mid, hi) ELSE SqrtIn(n, lo, mid)

ISqrt(n) == SqrtIn(n, 0, 46341)

\* 100 * 10^(i/10), i = 0..9: the mantissa thresholds of one decade
DeciTable == <<100, 126, 159, 200, 252, 317, 399, 502, 631, 795>>

\* floor(10 * log10(num / den)), num > 0, den > 0
RECURSIVE DeciLog(_, _)
DeciLog(num, den) ==
    IF num >= 10 * den THEN 10 + DeciLog(num, den * 10)
    ELSE IF num < den THEN DeciLog(num * 10, den) - 10
    ELSE LET m100 == (num \div den) * 100 + ((num % den) * 100) \div den
         IN Cardinality({i \in 1..10 : DeciTable[i] <= m100}) - 1

-----------------------------------------------------------------------------
(* Run-length encoded buffers: a sequence of runs <<value, count>>, count >= 1 *)

RunVal(r) == r[1]
RunCnt(r) == r[2]

BufLen(runs) == SumSeq([j \in 1..Len(runs) |-> RunCnt(runs[j])])

\* 0-based index of the first element of run j
RunStart(runs, j) == SumSeq([i \in 1..(j - 1) |-> RunCnt(runs[i])])

\* number of elements of run j with index in [lo, hi)
Overlap(runs, j, lo, hi) ==
    Max(0, Min(hi, RunStart(runs, j) + RunCnt(runs[j])) - Max(lo, RunStart(runs, j)))

\* sum of the elements with index in [lo, hi)
SumRange(runs, lo, hi) ==
    SumSeq([j \in 1..Len(runs) |-> RunVal(runs[j]) * Overlap(runs, j, lo, hi)])

\* sum of the squares of the elements with index in [lo, hi)
SumSqRange(runs, lo, hi) ==
    SumSeq([j \in 1..Len(runs) |->
              RunVal(runs[j]) * RunVal(runs[j]) * Overlap(runs, j, lo, hi)])

\* max |element| over the indices in [lo, hi), 0 when there is none
PeakRange(runs, lo, hi) ==
    MaxSeq([j \in 1..Len(runs) |->
              IF Overlap(runs, j, lo, hi) > 0 THEN Abs(RunVal(runs[j])) ELSE 0])

\* the element at 0-based index i
ElemAt(runs, i) == SumRange(runs, i, i + 1)

\* floor(a * 10^k / c) by long division, a >= 0, c > 0
RECURSIVE ScaleDiv(_, _, _)
ScaleDiv(a, c, k) ==
    IF k = 0 THEN a \div c
    ELSE (a \div c) * (10 ^ k) + ScaleDiv((a % c) * 10, c, k - 1)

\* floor(10^(d/10)), d >= 0
PowDeci(d) == ((10 ^ (d \div 10)) * DeciTable[(d % 10) + 1]) \div 100

\* sum of the indices k with a <= k < b
IndexSum(a, b) == IF b <= a THEN 0 ELSE ((a + b - 1) * (b - a)) \div 2

-----------------------------------------------------------------------------
(* The 25-field record, models/fingerprint.rs.  Every field in thousandths. *)

FieldNames ==
    {"sub_bass_pct", "bass_pct", "low_mid_pct", "mid_pct", "upper_mid_pct",
     "presence_pct", "air_pct", "lufs", "crest_db", "bass_mid_ratio",
     "tempo_bpm", "rhythm_stability", "transient_density", "silence_ratio",
     "spectral_centroid", "spectral_rolloff", "spectral_flatness",
     "harmonic_ratio", "pitch_stability", "chroma_energy",
     "dynamic_range_variation", "loudness_variation_std", "peak_consistency",
     "stereo_width", "phase_correlation"}

BandFields ==
    <<"sub_bass_pct", "bass_pct", "low_mid_pct", "mid_pct", "upper_mid_pct",
      "presence_pct", "air_pct">>

\* Fingerprint::default()
DefaultFingerprint == [f \in FieldNames |-> 0]

\* the f64 values that are not finite, apart from every fixed-point value
NaN == 2000000001
Infinity == 2000000002

\* f64::is_finite
IsFinite(v) == v # NaN /\ v # Infinity

\* the array valid_dimensions builds, in its order
Dimensions ==
    <<"sub_bass_pct", "bass_pct", "low_mid_pct", "mid_pct", "upper_mid_pct",
      "presence_pct", "air_pct", "lufs", "crest_db", "bass_mid_ratio",
      "tempo_bpm", "rhythm_stability", "transient_density", "silence_ratio",
      "spectral_centroid", "spectral_rolloff", "spectral_flatness",
      "harmonic_ratio", "pitch_stability", "chroma_energy",
      "dynamic_range_variation", "loudness_variation_std", "peak_consistency",
      "stereo_width", "phase_correlation">>

\* an array that lists stereo_width twice and leaves phase_correlation out
CountStereoWidthTwice(self) ==
    Cardinality({i \in 1..Len(Dimensions) :
                   IsFinite(self[IF i = 25 THEN "stereo_width" ELSE Dimensions[i]])})

\* Fingerprint::valid_dimensions: .iter().filter(|v| v.is_finite()).count()
valid_dimensions(self) ==
    Cardinality({i \in 1..Len(Dimensions) : IsFinite(self[Dimensions[i]])})

\* Fingerprint::is_valid
is_valid(self) == valid_dimensions(self) = 25

\* analyze_fingerprint, lines 75-78: what tracing::warn! logs, -1 for nothing
ValidationLog(self) ==
    IF ~is_valid(self) THEN 25 - valid_dimensions(self) ELSE -1

-----------------------------------------------------------------------------
(* The forward FFT of one Hann-windowed frame (rustfft, fft.process).  The  *)
(* Hann window is 0 at both ends of a full frame, so only the samples       *)
(* strictly inside the window reach the transform.  A frame whose windowed  *)
(* samples are all zero transforms to zero; any other frame transforms to   *)
(* `shape`.  The result keeps the run structure of `shape`.                 *)

WindowedSilent(samples, start, end) ==
    PeakRange(samples, start + 1, Min(end, start + FFT_SIZE - 1)) = 0

FftNorm(samples, start, end, shape) ==
    [j \in 1..Len(shape) |->
        <<IF WindowedSilent(samples, start, end) THEN 0 ELSE RunVal(shape[j]),
          RunCnt(shape[j])>>]

\* (c.norm() / FFT_SIZE).max(1e-10): the floor is 1 unit
FloorMagnitude(norms) ==
    [j \in 1..Len(norms) |-> <<Max(RunVal(norms[j]), 1), RunCnt(norms[j])>>]

\* a spectrum stage that takes a buffer of any length
NeverTooShort(samples) == FALSE

\* compute_fft_spectrum: Err(AnalysisError) below FFT_SIZE samples, else the
\* magnitude of the first FFT_SIZE samples: one entry per FFT output, that is
\* FFT_SIZE entries (freqs has FFT_SIZE / 2).
FftTooShort(samples) == BufLen(samples) < FFT_SIZE

compute_fft_spectrum(samples, shape) ==
    FloorMagnitude(FftNorm(samples, 0, FFT_SIZE, shape))

\* freqs[k] = k * sample_rate / FFT_SIZE, k < FFT_SIZE / 2; the bins of a band
\* [low, high) are those with low <= freqs[k] < high
NumFreqs == FFT_SIZE \div 2
BandLo(low, sr) == Min(CeilDiv(low * FFT_SIZE, sr), NumFreqs)
BandHi(high, sr) == Min(CeilDiv(high * FFT_SIZE, sr), NumFreqs)

\* sum over freqs.zip(magnitude_spec) filtered to the band
BandEnergy(mag, sr, low, high) ==
    SumRange(mag, BandLo(low, sr), BandHi(high, sr))

Bands ==
    <<<<20, 60>>, <<60, 250>>, <<250, 500>>, <<500, 2000>>, <<2000, 4000>>,
      <<4000, 6000>>, <<6000, 20000>>>>

\* total_energy of analyze_frequency: over the whole of magnitude_spec
TotalEnergy(mag) == SumRange(mag, 0, BufLen(mag))

BandPct(mag, sr, b) ==
    LET total == TotalEnergy(mag)
        pct == IF total > 0
               THEN ScaleDiv(BandEnergy(mag, sr, Bands[b][1], Bands[b][2]) * 100,
                             total, 3)
               ELSE 0
    IN Clamp(pct, 0, 100000)

\* analyze_frequency: the seven band percentages
analyze_frequency(mag, sr) == [b \in 1..7 |-> BandPct(mag, sr, b)]

\* mean square of the samples as a fraction <<num, den>> of full scale
SumSq(samples) == SumSqRange(samples, 0, BufLen(samples))
Peak(samples) == PeakRange(samples, 0, BufLen(samples))
FullScaleSq(n) == n * MaxAmp * MaxAmp

Lufs(samples) ==
    IF SumSq(samples) > 0
    THEN 500 * DeciLog(SumSq(samples), FullScaleSq(BufLen(samples))) - 691
    ELSE -120000

CrestDb(samples) ==
    IF SumSq(samples) > 0
    THEN 1000 * Max(DeciLog(Peak(samples) * Peak(samples) * BufLen(samples),
                            SumSq(samples)), 0)
    ELSE 0

BassMidRatio(mag, sr) ==
    LET bass == BandEnergy(mag, sr, 60, 250)
        mid == BandEnergy(mag, sr, 500, 2000)
    IN IF mid > 0
       THEN 2000 * (IF bass = 0 THEN -20 ELSE Max(DeciLog(bass, mid), -20))
       ELSE 0

\* analyze_dynamics: <<lufs, crest_db, bass_mid_ratio>>
analyze_dynamics(samples, mag, sr) ==
    <<Clamp(Lufs(samples), -120000, 0),
      Clamp(CrestDb(samples), 0, 50000),
      Clamp(BassMidRatio(mag, sr), -40000, 40000)>>

-----------------------------------------------------------------------------
(* Spectra of the frames of a buffer: all share the run structure of `shape` *)

\* the magnitude spectrum of the frame samples[start..end], zero-padded
FrameSpectrum(samples, start, end, shape) ==
    FloorMagnitude(FftNorm(samples, start, end, shape))

\* vec![0.0; FFT_SIZE / 2], on the run structure of `shape`
ZeroSpectrum(shape) == [j \in 1..Len(shape) |-> <<0, RunCnt(shape[j])>>]

\* sum over the first n bins of max(curr - prev, 0)
PosDiffSum(curr, prev, n) ==
    SumSeq([j \in 1..Len(curr) |->
              Max(RunVal(curr[j]) - RunVal(prev[j]), 0) * Overlap(curr, j, 0, n)])

\* estimate_tempo: the number of frames the loop processes before `break`
TempoFrames(samples) ==
    LET n == BufLen(samples)
    IN IF n < FFT_SIZE THEN 0
       ELSE Min(n \div HOP_LENGTH, (n - FFT_SIZE) \div HOP_LENGTH + 1)

\* flux[i], i = 1..TempoFrames: frame i against the previous spectrum, the
\* first frame against the all-zero initial prev_spectrum of FFT_SIZE / 2
\* bins, where the zip stops; later frames over all FFT_SIZE bins
TempoFlux(samples, shape) ==
    [i \in 1..TempoFrames(samples) |->
        PosDiffSum(FrameSpectrum(samples, (i - 1) * HOP_LENGTH,
                                 (i - 1) * HOP_LENGTH + FFT_SIZE, shape),
                   IF i = 1 THEN ZeroSpectrum(shape)
                   ELSE FrameSpectrum(samples, (i - 2) * HOP_LENGTH,
                                      (i - 2) * HOP_LENGTH + FFT_SIZE, shape),
                   IF i = 1 THEN NumFreqs ELSE FFT_SIZE)]

\* (a / b).clamp(lo, hi) in thousandths, lo and hi whole numbers
ClampRatioMilli(a, b, lo, hi) ==
    IF a >= hi * b THEN hi * 1000
    ELSE IF a <= lo * b THEN lo * 1000
    ELSE ScaleDiv(a, b, 3)

estimate_tempo(samples, sr, shape) ==
    LET flux == TempoFlux(samples, shape)
    IN IF BufLen(samples) \div HOP_LENGTH < 2 THEN 120000
       ELSE IF Len(flux) < 2 THEN 120000
       ELSE IF SumSeq(flux) > 0
            THEN ClampRatioMilli(Len(flux) * sr * 60, BufLen(samples), 40, 200)
            ELSE 120000

\* samples.chunks(size): the number of chunks and the bounds of chunk c >= 1
NumChunks(samples, size) == CeilDiv(BufLen(samples), size)
ChunkLo(c, size) == (c - 1) * size
ChunkHi(samples, c, size) == Min(c * size, BufLen(samples))
ChunkLen(samples, c, size) == ChunkHi(samples, c, size) - ChunkLo(c, size)
ChunkSumSq(samples, c, size) ==
    SumSqRange(samples, ChunkLo(c, size), ChunkHi(samples, c, size))
ChunkPeak(samples, c, size) ==
    PeakRange(samples, ChunkLo(c, size), ChunkHi(samples, c, size))

\* the rms of a chunk, in 1/16 of a sample unit
ChunkRms(samples, c, size) ==
    ISqrt((ChunkSumSq(samples, c, size) * 256) \div ChunkLen(samples, c, size))

\* sqrt(variance) / (mean + 1e-10) of a sequence of values >= 0, thousandths:
\* sqrt(n * sum(v^2) - sum(v)^2) / sum(v); all-zero values give 0 / 1e-10 = 0
SumOfSquares(v) == SumSeq([i \in 1..Len(v) |-> v[i] * v[i]])
SpreadTimesN(v) == ISqrt(Len(v) * SumOfSquares(v) - SumSeq(v) * SumSeq(v))
CoeffVar(v) ==
    IF SumSeq(v) = 0 THEN 0 ELSE ScaleDiv(SpreadTimesN(v), SumSeq(v), 3)

\* (1.0 / (1.0 + cv)).max(0.0).min(1.0)
Stability(cv) == Clamp(1000000 \div (1000 + cv), 0, 1000)

RhythmStability(samples, size) ==
    IF NumChunks(samples, size) > 1
    THEN Stability(CoeffVar([c \in 1..NumChunks(samples, size) |->
                                ChunkRms(samples, c, size)]))
    ELSE 500

\* the samples i in 1..len-2 above half the peak and strictly above both
\* neighbours in absolute value: only runs of one sample can be such
IsTransient(samples, j) ==
    LET i == RunStart(samples, j)
        a == Abs(RunVal(samples[j]))
    IN /\ RunCnt(samples[j]) = 1
       /\ i >= 1
       /\ i <= BufLen(samples) - 2
       /\ 2 * a > Peak(samples)
       /\ a > Abs(ElemAt(samples, i - 1))
       /\ a > Abs(ElemAt(samples, i + 1))

TransientPeaks(samples) ==
    Cardinality({j \in 1..Len(samples) : IsTransient(samples, j)})

TransientDensity(samples, sr) ==
    ClampRatioMilli(TransientPeaks(samples) * sr * 100, BufLen(samples), 0, 1)

\* a silence ratio that finds no silence
NoSilence(samples) == 0

\* silence_ratio of analyze_temporal
SilenceRatio(samples) ==
    IF SumSq(samples) > 0
    THEN LET level == DeciLog(SumSq(samples), FullScaleSq(BufLen(samples)))
         IN IF level < -60 THEN 1000
            ELSE Clamp(((60 + level) * 1000) \div 60, 0, 1000)
    ELSE 1000

\* samples.chunks(sample_rate / 10) panics on a chunk size of 0
ChunkSize(sr) == sr \div 10
ChunksPanic(sr) == ChunkSize(sr) = 0

\* analyze_temporal: <<tempo_bpm, rhythm_stability, transient_density,
\* silence_ratio>>
analyze_temporal(samples, sr, shape) ==
    <<Clamp(estimate_tempo(samples, sr, shape), 40000, 200000),
      RhythmStability(samples, ChunkSize(sr)),
      TransientDensity(samples, sr),
      SilenceRatio(samples)>>

-----------------------------------------------------------------------------
(* compute_stft_spectral_analysis and analyze_spectral_stats *)

\* the number of frames of the walk: starts 0, HOP, 2*HOP, ... below len, up
\* to the first with fewer than FFT_SIZE / 2 samples left
StftFrames(samples) ==
    LET n == BufLen(samples)
    IN IF n < FFT_SIZE \div 2 THEN 0
       ELSE (n - FFT_SIZE \div 2) \div HOP_LENGTH + 1

\* avg_spectrum after the walk and the division by frame_count
AvgSpectrum(samples, shape) ==
    LET nf == StftFrames(samples)
        frame(i) == FrameSpectrum(samples, (i - 1) * HOP_LENGTH,
                                  Min((i - 1) * HOP_LENGTH + FFT_SIZE,
                                      BufLen(samples)), shape)
    IN [j \in 1..Len(shape) |->
          <<SumSeq([i \in 1..nf |-> RunVal(frame(i)[j])]) \div nf,
            RunCnt(shape[j])>>]

\* sum of k * avg[k] over the first n bins
WeightedSum(avg, n) ==
    SumSeq([j \in 1..Len(avg) |->
              RunVal(avg[j]) * IndexSum(Min(RunStart(avg, j), n),
                                        Min(RunStart(avg, j) + RunCnt(avg[j]), n))])

SpectralCentroid(avg, n) ==
    Min(ScaleDiv(WeightedSum(avg, n), SumRange(avg, 0, n), 3) \div n, 1000)

\* the first bin k with cumsum > 0.95 * total, n when there is none
RECURSIVE RolloffFrom(_, _, _, _)
RolloffFrom(avg, n, j, cum) ==
    IF j > Len(avg) \/ RunStart(avg, j) >= n THEN n
    ELSE LET total == SumRange(avg, 0, n)
             cnt == Overlap(avg, j, 0, n)
             v == RunVal(avg[j])
             d == 95 * total - 100 * cum
         IN IF 100 * (cum + v * cnt) > 95 * total
            THEN RunStart(avg, j) + (IF d < 0 THEN 0 ELSE d \div (100 * v))
            ELSE RolloffFrom(avg, n, j + 1, cum + v * cnt)

SpectralRolloff(avg, n) ==
    LET k == RolloffFrom(avg, n, 1, 0)
    IN IF k >= n THEN 500 ELSE Min((k * 1000) \div n, 1000)

\* sum over the first n bins of 10*log10(avg[k] + 1e-10), in tenths of a decade
LogSum(avg, n) ==
    SumSeq([j \in 1..Len(avg) |->
              (DeciLog(RunVal(avg[j]) + 1, 1) - 100) * Overlap(avg, j, 0, n)])

\* the running product of n factors underflows f64 to 0 below about 5e-324
ProductUnderflows(avg, n) == LogSum(avg, n) < -3233

\* fold(1.0, |acc, x| acc * (x + 1e-10)).powf(1 / n), in spectrum units
GeometricMean(avg, n) ==
    IF ProductUnderflows(avg, n) THEN 0
    ELSE PowDeci(LogSum(avg, n) \div n + 100)

SpectralFlatness(avg, n) ==
    IF SumRange(avg, 0, n) > 0
    THEN Clamp(ScaleDiv(GeometricMean(avg, n) * n, SumRange(avg, 0, n), 3), 0, 1000)
    ELSE 500

\* analyze_spectral_stats: <<centroid, rolloff, flatness>>
analyze_spectral_stats(avg, n) ==
    IF n = 0 \/ SumRange(avg, 0, n) = 0 THEN <<500, 500, 500>>
    ELSE <<SpectralCentroid(avg, n), SpectralRolloff(avg, n),
           SpectralFlatness(avg, n)>>

compute_stft_spectral_analysis(samples, shape) ==
    IF StftFrames(samples) = 0 THEN <<500, 500, 500>>
    ELSE analyze_spectral_stats(AvgSpectrum(samples, shape), NumFreqs)

-----------------------------------------------------------------------------
(* analyze_harmonic *)

\* the bins i in 1..len-2 strictly above both neighbours
IsSpectralPeak(mag, j) ==
    LET i == RunStart(mag, j)
    IN /\ RunCnt(mag[j]) = 1
       /\ i >= 1
       /\ i <= BufLen(mag) - 2
       /\ RunVal(mag[j]) > ElemAt(mag, i - 1)
       /\ RunVal(mag[j]) > ElemAt(mag, i + 1)

HarmonicEnergy(mag) ==
    SumSeq([j \in 1..Len(mag) |->
              IF IsSpectralPeak(mag, j) THEN RunVal(mag[j]) ELSE 0])

\* (hz * mag_spec.len() / sample_rate) as usize
TonalBin(hz, mag, sr) == (hz * BufLen(mag)) \div sr

\* mag_spec.iter().take(hi).skip(lo)
ChromaEnergy(mag, sr) ==
    SumRange(mag, TonalBin(100, mag, sr), Min(TonalBin(5000, mag, sr), BufLen(mag)))

\* analyze_harmonic: <<harmonic_ratio, pitch_stability, chroma_energy>>
analyze_harmonic(mag, sr) ==
    LET total == TotalEnergy(mag)
    IN <<IF total > 0 THEN Clamp(ClampRatioMilli(HarmonicEnergy(mag), total, 0, 1), 0, 1000)
         ELSE 0,
         500,
         IF total > 0 THEN Clamp(ClampRatioMilli(ChromaEnergy(mag, sr), total, 0, 1), 0, 1000)
         ELSE 0>>

-----------------------------------------------------------------------------
(* analyze_variation *)

\* peak / rms of a chunk in 1/16, 1.0 for a silent chunk
ChunkCrest(samples, c, size) ==
    IF ChunkSumSq(samples, c, size) > 0
    THEN ISqrt((ChunkPeak(samples, c, size) * ChunkPeak(samples, c, size)
                  * ChunkLen(samples, c, size) * 256)
               \div ChunkSumSq(samples, c, size))
    ELSE 16

\* 20 * log10(rms) of a chunk in whole dB, -120 for a silent chunk
ChunkLoudness(samples, c, size) ==
    IF ChunkSumSq(samples, c, size) > 0
    THEN DeciLog(ChunkSumSq(samples, c, size), FullScaleSq(ChunkLen(samples, c, size)))
    ELSE -120

\* sqrt(variance) of a sequence of whole numbers, in thousandths
StdDevMilli(v) ==
    ScaleDiv(ISqrt(Len(v) * SumOfSquares(v) - SumSeq(v) * SumSeq(v)), Len(v), 3)

DynamicRangeVariation(samples, size) ==
    IF NumChunks(samples, size) > 1
    THEN Min(CoeffVar([c \in 1..NumChunks(samples, size) |->
                          ChunkCrest(samples, c, size)]), 1000)
    ELSE 0

LoudnessVariationStd(samples, size) ==
    IF NumChunks(samples, size) > 1
    THEN Max(StdDevMilli([c \in 1..NumChunks(samples, size) |->
                             ChunkLoudness(samples, c, size)]), 0)
    ELSE 0

PeakConsistency(samples, size) ==
    IF NumChunks(samples, size) > 1
    THEN Stability(CoeffVar([c \in 1..NumChunks(samples, size) |->
                                ChunkPeak(samples, c, size)]))
    ELSE 500

\* the variation stage without its clamp on loudness_variation_std
UnclampedLoudnessStd(x) == x

\* the final .max(0.0).min(10.0) of loudness_variation_std
ClampLoudnessStd(x) == Clamp(x, 0, 10000)

\* analyze_variation: <<dynamic_range_variation, loudness_variation_std,
\* peak_consistency>>
analyze_variation(samples, sr) ==
    <<Clamp(DynamicRangeVariation(samples, ChunkSize(sr)), 0, 1000),
      ClampLoudnessStd(LoudnessVariationStd(samples, ChunkSize(sr))),
      Clamp(PeakConsistency(samples, ChunkSize(sr)), 0, 1000)>>

-----------------------------------------------------------------------------
(* analyze_stereo: the mono defaults, whatever the samples *)

analyze_stereo(samples) == <<0, 1000>>

-----------------------------------------------------------------------------
(* audio/loader.rs.  A decoded packet is a run of `cnt` equal frames, each  *)
(* frame a left and a right sample (F64 buffers, whose $norm_fn is |v| v). *)

\* one frame of process_buffer!: the sum over ch_count channels / ch_count
DownmixFrame(l, r, ch_count) == IF ch_count = 1 THEN l ELSE (l + r) \div ch_count

\* collect_samples on one decoded buffer: nothing for an empty buffer, else
\* one mono sample per frame; a buffer holding NaN or infinite values gives
\* non-finite samples, marked by a third component of the run
collect_samples(samples, buf, channels) ==
    IF buf.cnt = 0 THEN samples
    ELSE IF ~buf.finite THEN Append(samples, <<0, buf.cnt, "NaN">>)
    ELSE Append(samples,
                <<DownmixFrame(buf.l, buf.r, Min(channels, buf.channels)), buf.cnt>>)

\* a loop that aborts on every packet that fails to decode
AbortsOnDecodeError(res) == FALSE

\* Err(DecodeError(_)) from decoder.decode => continue
Skipped(res) == res = "decode_error"

\* Err(IoError(_)) => break, Err(Unsupported(_)) => break from next_packet
EndsStream(res) == res \in {"io_error", "unsupported"}

\* the decode loop of load_audio_sync over the packets of the file, each with
\* the outcome `res` of reading and decoding it: <<"Ok", samples>> when the
\* loop breaks, <<"Err", "DecodingError">> when it returns.  The end of the
\* packets is the end of the stream, which next_packet reports as an IoError.
RECURSIVE DecodeLoop(_, _, _)
DecodeLoop(samples, packets, channels) ==
    IF packets = <<>> THEN <<"Ok", samples>>
    ELSE IF Head(packets).res = "ok"
         THEN DecodeLoop(collect_samples(samples, Head(packets), channels),
                         Tail(packets), channels)
    ELSE IF Skipped(Head(packets).res)
         THEN DecodeLoop(samples, Tail(packets), channels)
    ELSE IF EndsStream(Head(packets).res) THEN <<"Ok", samples>>
    ELSE <<"Err", "DecodingError">>

\* the faults of the environment of one load, in the order the code meets them
LoadFaults ==
    {"none", "missing", "join_panic", "no_extension", "open_failed",
     "probe_truncated", "probe_unsupported", "no_track", "no_channels",
     "decoder_make", "packet_error"}

\* the error kind load_audio returns for a fault
LoadError(fault) ==
    CASE fault = "missing" -> "FileNotFound"
      [] fault = "join_panic" -> "InternalError"
      [] fault = "no_extension" -> "InvalidAudio"
      [] fault = "open_failed" -> "FileNotFound"
      [] fault = "probe_truncated" -> "InvalidAudio"
      [] fault = "probe_unsupported" -> "UnsupportedFormat"
      [] fault = "no_track" -> "InvalidAudio"
      [] fault = "no_channels" -> "InvalidAudio"
      [] fault = "decoder_make" -> "DecodingError"
      [] fault = "packet_error" -> "DecodingError"

\* a loader that does not look at the samples it decoded
FiniteUnchecked(samples) == TRUE

\* samples.iter().all(|s| s.is_finite())
AllFinite(samples) == \A j \in 1..Len(samples) : Len(samples[j]) = 2

\* load_audio: <<"Err", kind>> or <<"Ok", AudioData>>
load_audio(f) ==
    IF f.fault # "none" THEN <<"Err", LoadError(f.fault)>>
    ELSE LET decoded == DecodeLoop(<<>>, f.packets, f.channels)
             samples == decoded[2]
         IN IF decoded[1] = "Err" THEN decoded
            ELSE IF samples = <<>> THEN <<"Err", "InvalidAudio">>
            ELSE IF ~AllFinite(samples) THEN <<"Err", "InvalidAudio">>
            ELSE <<"Ok", [samples |-> samples, sample_rate |-> f.sample_rate,
                          channels |-> f.channels]>>

-----------------------------------------------------------------------------
(* error.rs *)

ErrorKinds ==
    {"FileNotFound", "UnsupportedFormat", "DecodingError", "InvalidAudio",
     "AnalysisError", "IoError", "InternalError"}

\* a response that answers every error with 400
AlwaysBadRequest(kind) == 400

\* FingerprintError::into_response: the status of each error kind
into_response(kind) ==
    CASE kind = "FileNotFound" -> 404
      [] kind = "UnsupportedFormat" -> 415
      [] kind = "DecodingError" -> 400
      [] kind = "InvalidAudio" -> 400
      [] kind = "AnalysisError" -> 500
      [] kind = "IoError" -> 500
      [] kind = "InternalError" -> 500

\* the .map_err of fingerprint_handler on a blocking task that panicked
JoinError == "AnalysisError"

-----------------------------------------------------------------------------
(* vendor/auralis-dsp: compute_complete_fingerprint on an interleaved buffer, *)
(* a plain sequence of samples.  Of its result the model keeps the spectral *)
(* centroid and the two stereo dimensions; stages 1 to 6 read mono_audio     *)
(* only.                                                                    *)

\* audio.iter().step_by(2) and audio.iter().skip(1).step_by(2)
LeftChannel(a) == [i \in 1..CeilDiv(Len(a), 2) |-> a[2 * i - 1]]
RightChannel(a) == [i \in 1..(Len(a) \div 2) |-> a[2 * i]]

\* mono[i] = (audio[2i] + audio[2i+1]) * 0.5 over audio.len() / 2 frames, in
\* half sample units
MonoDownmix(a) == [i \in 1..(Len(a) \div 2) |-> a[2 * i - 1] + a[2 * i]]

\* sum of squares of 2 * mid and of 2 * side over the zipped channels
MidSq(left, right) ==
    SumSeq([i \in 1..Len(left) |-> (left[i] + right[i]) * (left[i] + right[i])])
SideSq(left, right) ==
    SumSeq([i \in 1..Len(left) |-> (left[i] - right[i]) * (left[i] - right[i])])

\* compute_stereo_width: side_energy / (mid_energy + side_energy), the rms
\* energies in 1/100 of half a sample unit
compute_stereo_width(left, right) ==
    IF Len(left) = 0 \/ Len(left) # Len(right) THEN 0
    ELSE LET mid_energy == ISqrt(MidSq(left, right) * 10000)
             side_energy == ISqrt(SideSq(left, right) * 10000)
         IN IF mid_energy + side_energy = 0 THEN 0
            ELSE Clamp((side_energy * 1000) \div (mid_energy + side_energy),
                       0, 1000)

\* n * (signal - mean): normalize_signal up to the positive factor n * std_dev,
\* which the correlation cancels; a constant signal normalizes to all zero
Centered(signal) ==
    [i \in 1..Len(signal) |-> Len(signal) * signal[i] - SumSeq(signal)]

DotProduct(a, b) == SumSeq([i \in 1..Len(a) |-> a[i] * b[i]])

\* compute_phase_correlation: 1.0 on empty or unequal channels and on a
\* denominator below 1e-10, else sum_product / denominator clamped to [-1, 1]
compute_phase_correlation(left, right) ==
    IF Len(left) = 0 \/ Len(left) # Len(right) THEN 1000
    ELSE LET l == Centered(left)
             r == Centered(right)
             sum_product == DotProduct(l, r)
             denominator == ISqrt(DotProduct(l, l) * DotProduct(r, r))
         IN IF denominator = 0 THEN 1000
            ELSE IF sum_product >= 0
                 THEN Clamp((sum_product * 1000) \div denominator, -1000, 1000)
                 ELSE Clamp(0 - ((0 - sum_product) * 1000) \div denominator,
                            -1000, 1000)

\* sin of p / q of a turn, 0 <= 2p <= q, in thousandths: the rational
\* approximation 16 x (pi - x) / (5 pi^2 - 4 x (pi - x)), exact at the
\* multiples of a twelfth and of a quarter of a turn
HalfTurnSin(p, q) == (32000 * p * (q - 2 * p)) \div (5 * q * q - 8 * p * (q - 2 * p))

\* sin and cos of p / q of a turn, 0 <= p < q, in thousandths
SinTurn(p, q) ==
    IF 2 * p <= q THEN HalfTurnSin(p, q) ELSE 0 - HalfTurnSin(2 * p - q, 2 * q)
CosTurn(p, q) == SinTurn((4 * p + q) % (4 * q), 4 * q)

\* 2usize.pow((len as f32).log2().ceil()), len >= 1
RECURSIVE PowerOfTwoAbove(_, _)
PowerOfTwoAbove(len, size) ==
    IF size >= len THEN size ELSE PowerOfTwoAbove(len, 2 * size)

\* the input of the FFT of audio_to_freq_domain: sample i times the window
\* 0.5 * (1 - cos(2 pi i / len)), then zeros up to fft_size; a sample of the
\* model times 100
WindowedInput(mono) ==
    [i \in 1..PowerOfTwoAbove(Len(mono), 1) |->
        IF i <= Len(mono)
        THEN (mono[i] * ((1000 - CosTurn(i - 1, Len(mono))) \div 2)) \div 10
        ELSE 0]

\* fft.process: the real and the imaginary part of bin k
DftRe(x, k) ==
    SumSeq([i \in 1..Len(x) |-> x[i] * CosTurn(((i - 1) * k) % Len(x), Len(x))])
        \div 1000
DftIm(x, k) ==
    0 - SumSeq([i \in 1..Len(x) |-> x[i] * SinTurn(((i - 1) * k) % Len(x), Len(x))])
        \div 1000

\* audio_to_freq_domain: norm_sqr of the bins below fft_size / 2, whose
\* frequencies are k * sample_rate / fft_size; the common factor
\* 1 / fft_size^2 is left out
audio_to_freq_domain(mono) ==
    IF Len(mono) = 0 THEN <<>>
    ELSE LET x == WindowedInput(mono)
         IN [b \in 1..(Len(x) \div 2) |->
                DftRe(x, b - 1) * DftRe(x, b - 1) + DftIm(x, b - 1) * DftIm(x, b - 1)]

\* compute_spectral_centroid, in thousandths of a Hz: 0.0 on an empty
\* spectrum or on a total power below 1e-10, else the mean frequency
\* weighted by power
compute_spectral_centroid(psd, sample_rate) ==
    IF psd = <<>> \/ SumSeq(psd) = 0 THEN 0
    ELSE (ScaleDiv(SumSeq([b \in 1..Len(psd) |-> (b - 1) * psd[b]]), SumSeq(psd), 3)
            * sample_rate) \div (2 * Len(psd))

\* the keys of AudioFingerprint::to_dict
AudioFingerprintFields ==
    {"sub_bass", "bass", "low_mid", "mid", "upper_mid", "presence", "air",
     "lufs", "crest_db", "bass_mid_ratio",
     "tempo_bpm", "rhythm_stability", "transient_density", "silence_ratio",
     "spectral_centroid", "spectral_rolloff", "spectral_flatness",
     "harmonic_ratio", "pitch_stability", "chroma_energy",
     "dynamic_range_variation", "loudness_variation", "peak_consistency",
     "stereo_width", "phase_correlation"}

\* mono_audio: the downmix of a stereo buffer, else the buffer
MonoAudio(a, channels) == IF channels = 2 THEN MonoDownmix(a) ELSE a

\* a call that splits every buffer into two channels
AnyChannelCount(channels) == TRUE

\* if channels == 2
IsStereo(channels) == channels = 2

\* the stereo dimensions: of the two channels, or the mono defaults (0.0, 1.0)
StereoDimensions(a, channels) ==
    IF IsStereo(channels)
    THEN [stereo_width |-> compute_stereo_width(LeftChannel(a), RightChannel(a)),
          phase_correlation |->
              compute_phase_correlation(LeftChannel(a), RightChannel(a))]
    ELSE [stereo_width |-> 0, phase_correlation |-> 1000]

\* compute_complete_fingerprint: the three input checks, then the fingerprint
compute_complete_fingerprint(a, sample_rate, channels) ==
    IF Len(a) = 0 THEN <<"Err", "Audio is empty">>
    ELSE IF sample_rate = 0 THEN <<"Err", "Sample rate must be > 0">>
    ELSE IF sample_rate < 8000 \/ sample_rate > 384000
         THEN <<"Err", "Sample rate is out of supported range">>
    ELSE <<"Ok", [spectral_centroid |->
                      compute_spectral_centroid(
                          audio_to_freq_domain(MonoAudio(a, channels)), sample_rate),
                  stereo_width |-> StereoDimensions(a, channels).stereo_width,
                  phase_correlation |->
                      StereoDimensions(a, channels).phase_correlation]>>

-----------------------------------------------------------------------------
(* Inputs *)

\* a decoded packet: `cnt` frames of left sample l and right sample r
Packet(l, r, cnt, ch) ==
    [res |-> "ok", l |-> l, r |-> r, cnt |-> cnt, channels |-> ch, finite |-> TRUE]

\* a packet that next_packet or decoder.decode answers with an error: "io_error"
\* and "unsupported" from next_packet, "decode_error" and "decode_failed" (any
\* other error) from decoder.decode, "read_error" (any other error) from
\* next_packet
Failure(res) ==
    [res |-> res, l |-> 0, r |-> 0, cnt |-> 0, channels |-> 1, finite |-> TRUE]

\* sample rates: one on which chunks(sample_rate / 10) panics, one below the
\* supported range, the lowest supported one, one above the range
SampleRates == {5, 4000, 8000, 500000}
Supported(sr) == sr >= 8000 /\ sr <= 384000

\* the number of frames of `Seconds` seconds at the lowest supported rate
LongLen == Seconds * 8000

\* decoded contents: <<channels, packets>>
Contents ==
    {<<1, <<>>>>,
     <<1, <<Packet(MaxAmp, 0, 1000, 1)>>>>,
     <<1, <<Packet(0, 0, LongLen, 1)>>>>,
     <<1, <<Packet(MaxAmp, 0, LongLen, 1)>>>>,
     <<2, <<Packet(MaxAmp, 0 - MaxAmp, LongLen, 2)>>>>,
     <<2, <<Packet(4, 2, LongLen, 2)>>>>,
     <<1, <<Packet(0, 0, LongLen \div 2, 1), Packet(5, 0, LongLen \div 2, 1)>>>>,
     <<1, <<Packet(0, 0, 3000, 1), Packet(MaxAmp, 0, 1, 1),
            Packet(0, 0, 5000, 1), Packet(4, 0, 1, 1),
            Packet(0, 0, LongLen - 8002, 1)>>>>,
     <<1, <<Packet(0, 0, 3000, 1), Packet(1, 0, 1, 1),
            Packet(0, 0, LongLen - 3001, 1)>>>>,
     <<1, <<Packet(0, 0, LongLen, 1),
            [res |-> "ok", l |-> 0, r |-> 0, cnt |-> 1, channels |-> 1,
             finite |-> FALSE]>>>>,
     <<1, <<[res |-> "decode_error", l |-> 0, r |-> 0, cnt |-> 10,
             channels |-> 1, finite |-> TRUE],
            Packet(3, 0, LongLen, 1)>>>>,
     <<1, <<Failure("decode_error"), Packet(3, 0, LongLen, 1),
            Failure("io_error"), Packet(MaxAmp, 0, 10, 1)>>>>,
     <<1, <<Failure("decode_error"), Failure("unsupported"),
            Packet(3, 0, LongLen, 1)>>>>,
     <<1, <<Packet(3, 0, LongLen, 1), Failure("decode_failed")>>>>,
     <<1, <<Packet(3, 0, LongLen, 1), Failure("read_error"),
            Packet(3, 0, LongLen, 1)>>>>,
     <<1, <<Packet(3, 0, LongLen, 1),
            [res |-> "ok", l |-> 0, r |-> 0, cnt |-> 1, channels |-> 1,
             finite |-> FALSE],
            Failure("unsupported")>>>>}

\* spectra of a frame that is not silent (units of 1e-10), FFT_SIZE bins each
FlatShape == <<<<50, FFT_SIZE>>>>
SpectrumShapes ==
    {<<<<1, 16>>, <<900, 1>>, <<1, 2015>>, <<900, 1>>, <<1, 15>>>>,
     FlatShape,
     <<<<1, 1>>, <<400, 40>>, <<2, 1966>>, <<400, 40>>, <<1, 1>>>>}

\* buffers handed to analyze_fingerprint by a direct caller
\* one impulse of full scale every `period` samples, `clicks` of them
ClickTrain(period, clicks) ==
    [k \in 1..(2 * clicks) |->
        IF k % 2 = 1 THEN <<MaxAmp, 1>> ELSE <<0, period - 1>>]

\* a steady level of half the full scale
HalfScale == MaxAmp \div 2

DirectBuffers ==
    {<<>>, <<<<3, 2047>>>>, <<<<0, FFT_SIZE>>>>, <<<<0, LongLen>>>>,
     <<<<MaxAmp, LongLen>>>>, <<<<HalfScale, LongLen>>>>,
     ClickTrain(4000, LongLen \div 4000)}

\* interleaved buffers handed to compute_complete_fingerprint: every sequence
\* of at most MaxDspLen samples out of DspSamples
DspSamples == {0 - MaxAmp, 0, MaxAmp}
RECURSIVE SeqsUpTo(_, _)
SeqsUpTo(S, n) ==
    IF n = 0 THEN {<<>>}
    ELSE SeqsUpTo(S, n - 1) \cup
         {Append(q, x) : q \in {q \in SeqsUpTo(S, n - 1) : Len(q) = n - 1}, x \in S}
DspBuffers == SeqsUpTo(DspSamples, MaxDspLen)
DspRates == {0, 4000, 8000, 384000, 500000}

NoPar == [kind |-> "none", unit_value |-> <<>>, workers |-> 0]
NoDsp == [audio |-> <<>>, sample_rate |-> 0, channels |-> 0]
NoAudio == [samples |-> <<>>, sample_rate |-> 0, channels |-> 0]
NoFile == [fault |-> "none", channels |-> 0, packets |-> <<>>, sample_rate |-> 0]
NoLib == [fn |-> "none"]
NoWalk == [fn |-> "none"]

-----------------------------------------------------------------------------
(* State *)

VARIABLES
    entry,       \* "http": POST /fingerprint; "direct": analyze_fingerprint called
    file,        \* the file of the request, as the decoder finds it
    shape,       \* what the FFT returns for a frame that is not silent
    pc,          \* position of the request
    audio,       \* AudioData handed to analyze_fingerprint
    magnitude_spec, \* of analyze_fingerprint, <<>> before it is computed
    spec_analysis,  \* of analyze_fingerprint, <<>> before it is computed
    fingerprint, \* the record analyze_fingerprint fills
    ran,         \* the analysis stages run so far, in order
    result,      \* <<"none">>, <<"Ok">>, <<"Err", kind>> or <<"Panic">>
    status,      \* the HTTP status of the response, 0 before it is sent
    dsp,         \* the arguments of compute_complete_fingerprint
    dsp_result,  \* <<"none">>, <<"Ok", fingerprint>> or <<"Err", message>>
    par_call,    \* the parallel loop both calls run, on the same input
    tasks,       \* tasks[c][u]: unit u of call c is pending, running or done
    slots,       \* slots[c]: the vector .collect() of call c fills
    returned,    \* returned[c]: what call c returned, <<>> before it returns
    warned,      \* the count tracing::warn! logged at the end of the analysis, -1: none
    walk,        \* the locals of a frame loop walked frame by frame
    cancel,      \* the caller has given the request up
    lib,         \* the arguments of a call of a library function
    lib_result   \* <<"none">> or <<"Ok", value>>: what that call returned

vars == <<entry, file, shape, pc, audio, magnitude_spec, spec_analysis,
          fingerprint, ran, result, status, dsp, dsp_result, par_call, tasks,
          slots, returned, warned, walk, cancel, lib, lib_result>>

Init ==
    /\ entry \in {"http", "direct", "dsp"}
    /\ shape \in SpectrumShapes
    /\ \/ /\ entry = "http"
          /\ \/ \E fault \in LoadFaults \ {"none"} :
                  file = [fault |-> fault, channels |-> 1, packets |-> <<>>,
                          sample_rate |-> 8000]
             \/ \E c \in Contents, sr \in SampleRates :
                  file = [fault |-> "none", channels |-> c[1], packets |-> c[2],
                          sample_rate |-> sr]
          /\ audio = NoAudio
          /\ pc = "request"
       \/ /\ entry = "direct"
          /\ file = NoFile
          /\ \E b \in DirectBuffers, sr \in SampleRates :
                  audio = [samples |-> b, sample_rate |-> sr, channels |-> 1]
          /\ pc = "call"
       \/ /\ entry = "dsp"
          /\ shape = FlatShape
          /\ file = NoFile
          /\ audio = NoAudio
          /\ pc = "dsp_call"
    /\ IF entry = "dsp"
       THEN \E a \in DspBuffers, sr \in DspRates, ch \in {1, 2} :
               dsp = [audio |-> a, sample_rate |-> sr, channels |-> ch]
       ELSE dsp = NoDsp
    /\ dsp_result = <<"none">>
    /\ par_call = NoPar
    /\ tasks = <<>>
    /\ slots = <<>>
    /\ returned = <<>>
    /\ warned = -1
    /\ walk = NoWalk
    /\ cancel = FALSE
    /\ lib = NoLib
    /\ lib_result = <<"none">>
    /\ magnitude_spec = <<>>
    /\ spec_analysis = <<>>
    /\ fingerprint = DefaultFingerprint
    /\ ran = <<>>
    /\ result = <<"none">>
    /\ status = 0

-----------------------------------------------------------------------------
(* api/fingerprint.rs, fingerprint_handler: load, then analyze on a blocking *)
(* task, then respond.                                                       *)

parVars == <<par_call, tasks, slots, returned>>
libVars == <<walk, cancel, lib, lib_result>>
inputs == <<entry, file, shape, dsp, parVars, libVars>>

\* load_audio(&req.filepath).await?
LoadAudio ==
    /\ pc = "request"
    /\ \E loaded \in {load_audio(file)} :
       IF loaded[1] = "Err"
          THEN /\ result' = loaded
               /\ pc' = "respond"
               /\ audio' = audio
          ELSE /\ audio' = loaded[2]
               /\ pc' = "call"
               /\ result' = result
    /\ UNCHANGED <<inputs, warned, dsp_result, magnitude_spec, spec_analysis, fingerprint, ran, status>>

\* the end of one stage of analyze_fingerprint
Returns(r) ==
    /\ result' = r
    /\ pc' = IF entry = "http" THEN "respond" ELSE "done"

\* an entry check that lets every buffer through
NeverEmpty(samples) == FALSE

\* samples.is_empty()
IsEmpty(samples) == samples = <<>>

\* analyze_fingerprint, lines 10-17: the empty check
AnalyzeEntry ==
    /\ pc = "call"
    /\ IF IsEmpty(audio.samples)
       THEN Returns(<<"Err", "InvalidAudio">>)
       ELSE pc' = "fft" /\ result' = result
    /\ UNCHANGED <<inputs, warned, dsp_result, audio, magnitude_spec, spec_analysis, fingerprint, ran,
                   status>>

\* line 20: compute_fft_spectrum(samples, sample_rate)?
ComputeFftSpectrum ==
    /\ pc = "fft"
    /\ IF FftTooShort(audio.samples)
       THEN /\ Returns(<<"Err", "AnalysisError">>)
            /\ UNCHANGED <<magnitude_spec, ran>>
       ELSE /\ magnitude_spec' = compute_fft_spectrum(audio.samples, shape)
            /\ ran' = Append(ran, "fft")
            /\ pc' = "stft"
            /\ result' = result
    /\ UNCHANGED <<inputs, warned, dsp_result, audio, spec_analysis, fingerprint, status>>

\* line 25: compute_stft_spectral_analysis(samples, sample_rate)?
ComputeStft ==
    /\ pc = "stft"
    /\ spec_analysis' = compute_stft_spectral_analysis(audio.samples, shape)
    /\ ran' = Append(ran, "stft")
    /\ pc' = "frequency"
    /\ UNCHANGED <<inputs, warned, dsp_result, audio, magnitude_spec, fingerprint, result, status>>

\* lines 28-38
AnalyzeFrequency ==
    /\ pc = "frequency"
    /\ \E fa \in {analyze_frequency(magnitude_spec, audio.sample_rate)} :
       fingerprint' =
            [DefaultFingerprint EXCEPT
               !.sub_bass_pct = fa[1], !.bass_pct = fa[2], !.low_mid_pct = fa[3],
               !.mid_pct = fa[4], !.upper_mid_pct = fa[5], !.presence_pct = fa[6],
               !.air_pct = fa[7]]
    /\ ran' = Append(ran, "frequency")
    /\ pc' = "dynamics"
    /\ UNCHANGED <<inputs, warned, dsp_result, audio, magnitude_spec, spec_analysis, result, status>>

\* lines 41-44
AnalyzeDynamics ==
    /\ pc = "dynamics"
    /\ \E da \in {analyze_dynamics(audio.samples, magnitude_spec, audio.sample_rate)} :
       fingerprint' =
            [fingerprint EXCEPT
               !.lufs = da[1], !.crest_db = da[2], !.bass_mid_ratio = da[3]]
    /\ ran' = Append(ran, "dynamics")
    /\ pc' = "temporal"
    /\ UNCHANGED <<inputs, warned, dsp_result, audio, magnitude_spec, spec_analysis, result, status>>

\* lines 47-56: analyze_temporal, which panics in samples.chunks(0), then the
\* three spectral fields from spec_analysis
AnalyzeTemporal ==
    /\ pc = "temporal"
    /\ IF ChunksPanic(audio.sample_rate)
       THEN /\ Returns(<<"Panic">>)
            /\ UNCHANGED <<fingerprint, ran>>
       ELSE /\ \E ta \in {analyze_temporal(audio.samples, audio.sample_rate, shape)} :
               fingerprint' =
                    [fingerprint EXCEPT
                       !.tempo_bpm = ta[1], !.rhythm_stability = ta[2],
                       !.transient_density = ta[3], !.silence_ratio = ta[4],
                       !.spectral_centroid = spec_analysis[1],
                       !.spectral_rolloff = spec_analysis[2],
                       !.spectral_flatness = spec_analysis[3]]
            /\ ran' = Append(ran, "temporal")
            /\ pc' = "harmonic"
            /\ result' = result
    /\ UNCHANGED <<inputs, warned, dsp_result, audio, magnitude_spec, spec_analysis, status>>

\* lines 59-62: analyze_harmonic computes the spectrum of the samples again
AnalyzeHarmonic ==
    /\ pc = "harmonic"
    /\ \E ha \in {analyze_harmonic(compute_fft_spectrum(audio.samples, shape),
                                  audio.sample_rate)} :
       fingerprint' =
            [fingerprint EXCEPT
               !.harmonic_ratio = ha[1], !.pitch_stability = ha[2],
               !.chroma_energy = ha[3]]
    /\ ran' = Append(ran, "harmonic")
    /\ pc' = "variation"
    /\ UNCHANGED <<inputs, warned, dsp_result, audio, magnitude_spec, spec_analysis, result, status>>

\* lines 65-68
AnalyzeVariation ==
    /\ pc = "variation"
    /\ \E va \in {analyze_variation(audio.samples, audio.sample_rate)} :
       fingerprint' =
            [fingerprint EXCEPT
               !.dynamic_range_variation = va[1],
               !.loudness_variation_std = va[2], !.peak_consistency = va[3]]
    /\ ran' = Append(ran, "variation")
    /\ pc' = "stereo"
    /\ UNCHANGED <<inputs, warned, dsp_result, audio, magnitude_spec, spec_analysis, result, status>>

\* lines 71-80: analyze_stereo, then Ok(fingerprint)
AnalyzeStereo ==
    /\ pc = "stereo"
    /\ \E sa \in {analyze_stereo(audio.samples)} :
       fingerprint' =
            [fingerprint EXCEPT !.stereo_width = sa[1], !.phase_correlation = sa[2]]
    /\ warned' = ValidationLog(fingerprint')
    /\ ran' = Append(ran, "stereo")
    /\ Returns(<<"Ok">>)
    /\ UNCHANGED <<inputs, dsp_result, audio, magnitude_spec, spec_analysis, status>>

\* the status of the response: 200 with the fingerprint, else the status of
\* the error; a panicked blocking task is a JoinError
ResponseStatus(r) ==
    CASE r[1] = "Ok" -> 200
      [] r[1] = "Err" -> into_response(r[2])
      [] r[1] = "Panic" -> into_response(JoinError)

Respond ==
    /\ pc = "respond"
    /\ status' = ResponseStatus(result)
    /\ pc' = "done"
    /\ UNCHANGED <<inputs, warned, dsp_result, audio, magnitude_spec, spec_analysis, fingerprint, ran,
                   result>>

\* a call of compute_complete_fingerprint
ComputeCompleteFingerprint ==
    /\ pc = "dsp_call"
    /\ dsp_result' =
          compute_complete_fingerprint(dsp.audio, dsp.sample_rate, dsp.channels)
    /\ pc' = "done"
    /\ UNCHANGED <<inputs, warned, audio, magnitude_spec, spec_analysis, fingerprint, ran,
                   result, status>>

Next ==
    \/ LoadAudio
    \/ AnalyzeEntry
    \/ ComputeFftSpectrum
    \/ ComputeStft
    \/ AnalyzeFrequency
    \/ AnalyzeDynamics
    \/ AnalyzeTemporal
    \/ AnalyzeHarmonic
    \/ AnalyzeVariation
    \/ AnalyzeStereo
    \/ Respond
    \/ ComputeCompleteFingerprint

Spec == Init /\ [][Next]_vars

-----------------------------------------------------------------------------
(* Properties of the server: POST /fingerprint and analyze_fingerprint *)

\* analyze_fingerprint has been called on `audio`
Called == audio # NoAudio /\ pc # "call"
\* the request or the call has come to its outcome
Finished == pc \in {"respond", "done"}
\* an all-zero buffer
Silent(samples) == samples # <<>> /\ Peak(samples) = 0
\* a short buffer that is not empty
ShortBuffer(samples) == samples # <<>> /\ BufLen(samples) < FFT_SIZE

UnitFields ==
    {"rhythm_stability", "transient_density", "silence_ratio",
     "spectral_centroid", "spectral_rolloff", "spectral_flatness",
     "harmonic_ratio", "pitch_stability", "chroma_energy",
     "dynamic_range_variation", "peak_consistency", "stereo_width"}

BandSum(fp) == SumSeq([b \in 1..7 |-> fp[BandFields[b]]])

\* the declared ranges of the 25 fields, in thousandths
InRange(fp) ==
    /\ \A b \in 1..7 : fp[BandFields[b]] >= 0 /\ fp[BandFields[b]] <= 100000
    /\ BandSum(fp) <= 100000
    /\ fp.lufs >= -120000 /\ fp.lufs <= 0
    /\ fp.crest_db >= 0 /\ fp.crest_db <= 50000
    /\ fp.bass_mid_ratio >= -40000 /\ fp.bass_mid_ratio <= 40000
    /\ fp.tempo_bpm >= 40000 /\ fp.tempo_bpm <= 200000
    /\ fp.loudness_variation_std >= 0 /\ fp.loudness_variation_std <= 10000
    /\ fp.phase_correlation >= -1000 /\ fp.phase_correlation <= 1000
    /\ \A f \in UnitFields : fp[f] >= 0 /\ fp[f] <= 1000

\* C1: whenever analyze_fingerprint returns Ok on a buffer of finite samples,
\* each of the 25 fields lies in its declared range and the seven band
\* percentages sum to at most 100.
C1_FieldsInRange == result = <<"Ok">> => InRange(fingerprint)

\* an Ok fingerprint whose loudness_variation_std sits on its upper clamp and
\* whose bands carry energy
C1_Witness ==
    /\ result = <<"Ok">>
    /\ fingerprint.loudness_variation_std = 10000
    /\ BandSum(fingerprint) > 0

\* C2: analyze_fingerprint called with an empty buffer fails with
\* InvalidAudio, returns no fingerprint, and computes no spectrum and no
\* feature before it fails.
C2_EmptyRejectedFirst ==
    (entry = "direct" /\ audio.samples = <<>> /\ pc # "call") =>
        /\ result = <<"Err", "InvalidAudio">>
        /\ ran = <<>>
        /\ magnitude_spec = <<>>
        /\ spec_analysis = <<>>
        /\ fingerprint = DefaultFingerprint

C2_Witness ==
    /\ entry = "direct"
    /\ audio.samples = <<>>
    /\ pc = "done"
    /\ result[1] = "Err"

\* C3 as amended: on a buffer that is not empty and has fewer than FFT_SIZE
\* samples the engine fails with the error kind AnalysisError before any
\* stage runs, and POST /fingerprint answers 500.
C3_ShortIsAnalysisError ==
    (ShortBuffer(audio.samples) /\ pc \notin {"call", "fft"}) =>
        /\ result = <<"Err", "AnalysisError">>
        /\ ran = <<>>
        /\ (entry = "http" /\ pc = "done" => status = 500)

C3_Witness ==
    /\ entry = "http"
    /\ ShortBuffer(audio.samples)
    /\ pc = "done"
    /\ status = 500

\* C3 as stated: the short buffer fails with InvalidAudio, reported as 400
C3_ShortIsInvalidAudio ==
    (ShortBuffer(audio.samples) /\ Finished) =>
        /\ result = <<"Err", "InvalidAudio">>
        /\ (entry = "http" /\ pc = "done" => status = 400)

\* C4 as stated: for a sample rate outside [8000, 384000] analyze_fingerprint
\* runs no analysis stage and produces no fingerprint.
C4_UnsupportedRateRejected ==
    (audio # NoAudio /\ ~Supported(audio.sample_rate)) =>
        /\ ran = <<>>
        /\ result[1] # "Ok"
        /\ (Called /\ Finished => result = <<"Err", "InvalidAudio">>)

\* the stages of analyze_fingerprint, in the order of its body
Stages ==
    <<"fft", "stft", "frequency", "dynamics", "temporal", "harmonic",
      "variation", "stereo">>

\* the status the handler owes each outcome
ExpectedStatus(r) ==
    CASE r = <<"Ok">> -> 200
      [] r = <<"Err", "FileNotFound">> -> 404
      [] r = <<"Err", "UnsupportedFormat">> -> 415
      [] r \in {<<"Err", "DecodingError">>, <<"Err", "InvalidAudio">>} -> 400
      [] OTHER -> 500

\* C5: POST /fingerprint answers 200 only when loading and analysis both
\* succeed, 404 for FileNotFound, 415 for UnsupportedFormat, 400 for
\* DecodingError and InvalidAudio, 500 for AnalysisError, IoError,
\* InternalError and a failed blocking task; no error is answered with 200.
C5_StatusMapping ==
    /\ (entry = "http" /\ pc = "done") =>
          /\ status = ExpectedStatus(result)
          /\ (status = 200 <=> (result = <<"Ok">> /\ ran = Stages))
    /\ into_response("IoError") = 500

\* every class of status has been answered: here an unsupported format
C5_Witness ==
    /\ entry = "http"
    /\ pc = "done"
    /\ status = 415
    /\ result = <<"Err", "UnsupportedFormat">>


\* C6: on an all-zero mono buffer of at least 2 seconds at a supported sample
\* rate analyze_fingerprint raises no error and returns silence_ratio = 1,
\* lufs = -120, crest_db = 0, stereo_width = 0 and phase_correlation = 1.
C6_SilenceFields ==
    (/\ Called
     /\ Finished
     /\ Silent(audio.samples)
     /\ Supported(audio.sample_rate)
     /\ BufLen(audio.samples) >= 2 * audio.sample_rate) =>
        /\ result = <<"Ok">>
        /\ fingerprint.silence_ratio = 1000
        /\ fingerprint.lufs = -120000
        /\ fingerprint.crest_db = 0
        /\ fingerprint.stereo_width = 0
        /\ fingerprint.phase_correlation = 1000

\* a decoded file of two seconds of mono silence, analysed to the end
C6_Witness ==
    /\ entry = "http"
    /\ file.channels = 1
    /\ pc = "done"
    /\ Silent(audio.samples)
    /\ Supported(audio.sample_rate)
    /\ BufLen(audio.samples) >= 2 * audio.sample_rate
    /\ ran = Stages

\* C7 as stated: on an all-zero buffer the seven band percentages are 0.
C7_SilentBandsZero ==
    (/\ Silent(audio.samples)
     /\ Supported(audio.sample_rate)
     /\ result = <<"Ok">>) =>
        \A b \in 1..7 : fingerprint[BandFields[b]] = 0

\* C8: every mono input an entry point accepts gets stereo_width = 0 and
\* phase_correlation = 1: the buffer of analyze_fingerprint, which is mono,
\* and a buffer passed to compute_complete_fingerprint with channels = 1.
C8_MonoStereoDefaults ==
    /\ result = <<"Ok">> =>
          /\ fingerprint.stereo_width = 0
          /\ fingerprint.phase_correlation = 1000
    /\ (dsp.channels = 1 /\ dsp_result[1] = "Ok") =>
          /\ dsp_result[2].stereo_width = 0
          /\ dsp_result[2].phase_correlation = 1000

\* a mono buffer accepted by compute_complete_fingerprint whose samples, read
\* as two channels, would be in antiphase
C8_Witness ==
    /\ dsp.channels = 1
    /\ dsp_result[1] = "Ok"
    /\ Len(dsp.audio) = 4
    /\ compute_phase_correlation(LeftChannel(dsp.audio), RightChannel(dsp.audio))
          = -1000
    /\ compute_stereo_width(LeftChannel(dsp.audio), RightChannel(dsp.audio)) = 1000

\* right channel the negation of left, left not zero, in every packet
Antiphase(f) ==
    /\ f.channels = 2
    /\ f.packets # <<>>
    /\ \A k \in 1..Len(f.packets) :
          /\ f.packets[k].res = "ok"
          /\ f.packets[k].channels = 2
          /\ f.packets[k].l # 0
          /\ f.packets[k].r = 0 - f.packets[k].l

\* C9 as stated: the fingerprint of a decoded antiphase file has
\* stereo_width > 0.9 and phase_correlation close to -1.
C9_AntiphaseWide ==
    (/\ entry = "http"
     /\ Antiphase(file)
     /\ Supported(file.sample_rate)
     /\ result = <<"Ok">>) =>
        /\ fingerprint.stereo_width > 900
        /\ fingerprint.phase_correlation < -900

-----------------------------------------------------------------------------
(* The parallel loops of vendor/auralis-dsp: yin maps process_frame over the *)
(* frame indices, convolve_cqt maps convolve_single_bin over the kernels,    *)
(* both with rayon's map(..).collect() into a Vec.  Two calls run on the     *)
(* same input and share the worker pool.                                     *)

Calls == {1, 2}
Units == 1..ParUnits

\* what the closure of the loop returns for each unit of an input: f0 of the
\* frame (0.0 unvoiced) or the magnitudes of the bin; process_frame and
\* convolve_single_bin read their arguments only
ParInputs ==
    {[u \in Units |-> 0],
     [u \in Units |-> 110 * u],
     [u \in Units |-> IF u % 2 = 1 THEN 0 ELSE 440],
     [u \in Units |-> IF u = 1 THEN 880 ELSE 0]}

InitPar ==
    /\ entry = "par"
    /\ file = NoFile
    /\ shape = FlatShape
    /\ pc = "par"
    /\ audio = NoAudio
    /\ magnitude_spec = <<>>
    /\ spec_analysis = <<>>
    /\ fingerprint = DefaultFingerprint
    /\ ran = <<>>
    /\ result = <<"none">>
    /\ status = 0
    /\ dsp = NoDsp
    /\ dsp_result = <<"none">>
    /\ warned = -1
    /\ walk = NoWalk
    /\ cancel = FALSE
    /\ lib = NoLib
    /\ lib_result = <<"none">>
    /\ \E k \in {"yin", "cqt"}, f \in ParInputs, w \in 1..MaxWorkers :
          par_call = [kind |-> k, unit_value |-> f, workers |-> w]
    /\ tasks = [c \in Calls |-> [u \in Units |-> "pending"]]
    /\ slots = [c \in Calls |-> <<>>]
    /\ returned = [c \in Calls |-> <<>>]

serverVars ==
    <<entry, file, shape, pc, audio, magnitude_spec, spec_analysis, fingerprint,
      ran, result, status, dsp, dsp_result, warned, libVars>>

Running == {cu \in Calls \X Units : tasks[cu[1]][cu[2]] = "running"}

\* a worker that is idle takes a unit of either call, in any order
TakeUnit(c, u) ==
    /\ tasks[c][u] = "pending"
    /\ Cardinality(Running) < par_call.workers
    /\ tasks' = [tasks EXCEPT ![c][u] = "running"]
    /\ UNCHANGED <<serverVars, par_call, slots, returned>>

\* a collect that appends results as they complete
PlaceInCompletionOrder(out, u, v) ==
    [i \in 1..(Cardinality(DOMAIN out) + 1) |->
        IF i \in DOMAIN out THEN out[i] ELSE v]

\* collect() of an indexed parallel iterator: the result of unit u is written
\* to position u of the vector, whose written positions are DOMAIN out
Place(out, u, v) ==
    [i \in DOMAIN out \cup {u} |-> IF i = u THEN v ELSE out[i]]

\* the worker finishes the closure of unit u and its result is collected
FinishUnit(c, u) ==
    /\ tasks[c][u] = "running"
    /\ tasks' = [tasks EXCEPT ![c][u] = "done"]
    /\ slots' = [slots EXCEPT ![c] = Place(slots[c], u, par_call.unit_value[u])]
    /\ UNCHANGED <<serverVars, par_call, returned>>

\* the loop of call c is over: yin returns f0_contour; convolve_cqt copies
\* bin_results[bin_idx] to row bin_idx of cqt_spec and returns it
ReturnCall(c) ==
    /\ returned[c] = <<>>
    /\ \A u \in Units : tasks[c][u] = "done"
    /\ returned' = [returned EXCEPT ![c] = slots[c]]
    /\ UNCHANGED <<serverVars, par_call, tasks, slots>>

NextPar ==
    \/ \E c \in Calls, u \in Units : TakeUnit(c, u)
    \/ \E c \in Calls, u \in Units : FinishUnit(c, u)
    \/ \E c \in Calls : ReturnCall(c)

SpecPar == InitPar /\ [][NextPar]_vars

\* C10: each call of a parallel loop returns the result of every unit at the
\* index of the unit, whatever the order in which the workers completed the
\* units and however many workers there are, and two calls on the same input,
\* one after the other or at the same time, return the same vector.
C10_ParallelDeterministic ==
    \A c \in Calls :
        returned[c] # <<>> =>
            /\ returned[c] = par_call.unit_value
            /\ \A d \in Calls : returned[d] # <<>> => returned[d] = returned[c]

\* the second call has returned while the first, on an input whose units
\* differ, has completed unit 2 before unit 1
C10_Witness ==
    /\ returned[2] # <<>>
    /\ par_call.workers > 1
    /\ par_call.unit_value[1] # par_call.unit_value[2]
    /\ 1 \notin DOMAIN slots[1]
    /\ 2 \in DOMAIN slots[1]

-----------------------------------------------------------------------------
(* Single functions, called on their own.  The two frame loops of the        *)
(* analyzer, compute_stft_spectral_analysis and estimate_tempo, are walked   *)
(* frame by frame: `walk` holds their locals, walk.held the buffers of       *)
(* spectrum size (FFT_SIZE or FFT_SIZE / 2 numbers) that are alive, each     *)
(* with the 1-based index of the frame whose data it holds, 0 for none.      *)

Buffer(name, frame) == [name |-> name, frame |-> frame]

\* a loop that keeps what it allocates, as analyze_spectral took its frames
KeepAll(held, names) == held

\* the buffers of `held` left when those called `names` go out of scope
Release(held, names) == {b \in held : b.name \notin names}

\* buffers the walks are run on, at 8000 Hz
WalkBuffers ==
    {<<<<3, 1000>>>>, <<<<0, FFT_SIZE>>>>, <<<<MaxAmp, 3000>>>>,
     <<<<0, LongLen>>>>,
     <<<<0, LongLen \div 2>>, <<5, LongLen \div 2>>>>}

\* the locals of a walk at the entry of the function
WalkLocals(fn) ==
    [fn |-> fn, start |-> 0, frame_count |-> 0, held |-> {},
     avg_spectrum |-> <<>>, prev_spectrum |-> <<>>, flux |-> <<>>,
     processed |-> <<>>]

\* the end of the frame that starts at `start`
FrameEnd(samples, start) == Min(start + FFT_SIZE, BufLen(samples))

\* spectrum.iter().zip(prev_spectrum.iter()): the bins compared in a frame,
\* prev_spectrum being vec![0.0; FFT_SIZE / 2] before the first frame and a
\* spectrum of FFT_SIZE magnitudes after it
FluxBins(frame_count) == IF frame_count = 0 THEN NumFreqs ELSE FFT_SIZE

\* a walk that transforms the samples it has, without padding
NoResize(len) == len

\* input.resize(FFT_SIZE, 0) when input.len() < FFT_SIZE: the length after it
Resize(len) == IF len < FFT_SIZE THEN FFT_SIZE ELSE len

\* what a walk notes of a frame it has transformed: its offset, the samples
\* of the buffer in it, the length of the input of the transform, and the
\* bins summed against the previous spectrum (0 in the averaging walk)
Frame(start, real, len, bins) ==
    [start |-> start, real |-> real, len |-> len, bins |-> bins]

\* avg_spectrum[i] += magnitude[i], run by run
AddSpectrum(avg, spectrum) ==
    [j \in 1..Len(avg) |-> <<RunVal(avg[j]) + RunVal(spectrum[j]), RunCnt(avg[j])>>]

\* *val /= frame_count
DivideSpectrum(avg, frame_count) ==
    [j \in 1..Len(avg) |-> <<RunVal(avg[j]) \div frame_count, RunCnt(avg[j])>>]

walkVars == <<entry, file, shape, audio, magnitude_spec, spec_analysis,
              fingerprint, ran, result, status, dsp, dsp_result, parVars,
              warned, lib>>

\* compute_stft_spectral_analysis, lines 331-341: window and avg_spectrum
StftEnter ==
    /\ pc = "walk_begin"
    /\ walk.fn = "stft"
    /\ walk' = [walk EXCEPT !.held = {Buffer("window", 0), Buffer("avg_spectrum", 0)},
                            !.avg_spectrum = ZeroSpectrum(shape)]
    /\ pc' = "frame"
    /\ UNCHANGED <<walkVars, cancel, lib_result>>

\* lines 343-361: the top of the loop, its break, and the windowed input
StftFrameBegin ==
    /\ pc = "frame"
    /\ walk.fn = "stft"
    /\ IF \/ walk.start >= BufLen(audio.samples)
          \/ FrameEnd(audio.samples, walk.start) - walk.start < FFT_SIZE \div 2
       THEN pc' = "walk_end" /\ walk' = walk
       ELSE /\ walk' = [walk EXCEPT !.held = @ \cup {Buffer("input", walk.frame_count + 1)}]
            /\ pc' = "in_frame"
    /\ UNCHANGED <<walkVars, cancel, lib_result>>

\* lines 363-369: the transform, the running sum, and the end of the scope
\* of `input`
StftFrameEnd ==
    /\ pc = "in_frame"
    /\ walk.fn = "stft"
    /\ \E spectrum \in {FrameSpectrum(audio.samples, walk.start,
                                      FrameEnd(audio.samples, walk.start), shape)} :
          walk' = [walk EXCEPT !.avg_spectrum = AddSpectrum(@, spectrum),
                               !.processed =
                                   Append(@, Frame(walk.start,
                                                   FrameEnd(audio.samples, walk.start)
                                                     - walk.start,
                                                   Resize(FrameEnd(audio.samples,
                                                                   walk.start)
                                                            - walk.start),
                                                   0)),
                               !.frame_count = @ + 1,
                               !.start = @ + HOP_LENGTH,
                               !.held = Release(@, {"input"})]
    /\ pc' = "frame"
    /\ UNCHANGED <<walkVars, cancel, lib_result>>

\* lines 372-382: no frame, or the statistics of the normalized average
StftReturn ==
    /\ pc = "walk_end"
    /\ walk.fn = "stft"
    /\ lib_result' =
          <<"Ok", IF walk.frame_count = 0 THEN <<500, 500, 500>>
                  ELSE analyze_spectral_stats(
                           DivideSpectrum(walk.avg_spectrum, walk.frame_count),
                           NumFreqs)>>
    /\ walk' = [walk EXCEPT !.held = {}]
    /\ pc' = "done"
    /\ UNCHANGED <<walkVars, cancel>>

\* estimate_tempo, lines 283-289: the default on fewer than two hops, else
\* flux and prev_spectrum
TempoEnter ==
    /\ pc = "walk_begin"
    /\ walk.fn = "tempo"
    /\ IF BufLen(audio.samples) \div HOP_LENGTH < 2
       THEN /\ lib_result' = <<"Ok", 120000>>
            /\ pc' = "done"
            /\ walk' = walk
       ELSE /\ walk' = [walk EXCEPT !.held = {Buffer("prev_spectrum", 0)},
                                    !.prev_spectrum = ZeroSpectrum(shape)]
            /\ pc' = "frame"
            /\ lib_result' = lib_result
    /\ UNCHANGED <<walkVars, cancel>>

\* lines 291-300: the top of the loop, its break, and the inside of
\* compute_fft_spectrum on the frame: window, input, magnitude and freqs
TempoFrameBegin ==
    /\ pc = "frame"
    /\ walk.fn = "tempo"
    /\ IF \/ walk.frame_count >= BufLen(audio.samples) \div HOP_LENGTH
          \/ FrameEnd(audio.samples, walk.start) - walk.start < FFT_SIZE
       THEN pc' = "walk_end" /\ walk' = walk
       ELSE /\ walk' = [walk EXCEPT !.held =
                          @ \cup {Buffer("window", 0), Buffer("freqs", 0),
                                  Buffer("input", walk.frame_count + 1),
                                  Buffer("magnitude", walk.frame_count + 1)}]
            /\ pc' = "in_frame"
    /\ UNCHANGED <<walkVars, cancel, lib_result>>

\* lines 300-310: the flux of the frame, then prev_spectrum = spectrum, which
\* drops the spectrum of the frame before
TempoFrameEnd ==
    /\ pc = "in_frame"
    /\ walk.fn = "tempo"
    /\ \E spectrum \in {FrameSpectrum(audio.samples, walk.start,
                                      walk.start + FFT_SIZE, shape)} :
          walk' = [walk EXCEPT
                     !.flux = Append(@, PosDiffSum(spectrum, walk.prev_spectrum,
                                                   FluxBins(walk.frame_count))),
                     !.prev_spectrum = spectrum,
                     !.processed =
                         Append(@, Frame(walk.start, FFT_SIZE, FFT_SIZE,
                                         FluxBins(walk.frame_count))),
                     !.frame_count = @ + 1,
                     !.start = @ + HOP_LENGTH,
                     !.held = Release(@, {"window", "freqs", "input", "magnitude",
                                          "prev_spectrum"})
                              \cup {Buffer("prev_spectrum", walk.frame_count + 1)}]
    /\ pc' = "frame"
    /\ UNCHANGED <<walkVars, cancel, lib_result>>

\* lines 313-326: the default on fewer than two flux values or no flux
TempoReturn ==
    /\ pc = "walk_end"
    /\ walk.fn = "tempo"
    /\ lib_result' =
          <<"Ok", IF Len(walk.flux) < 2 THEN 120000
                  ELSE IF SumSeq(walk.flux) > 0
                       THEN ClampRatioMilli(Len(walk.flux) * audio.sample_rate * 60,
                                            BufLen(audio.samples), 40, 200)
                       ELSE 120000>>
    /\ walk' = [walk EXCEPT !.held = {}]
    /\ pc' = "done"
    /\ UNCHANGED <<walkVars, cancel>>

\* the caller gives the request up while a loop is between or inside frames;
\* neither loop, nor any function of the analyzer, takes a token to read it
RequestCancel ==
    /\ pc \in {"frame", "in_frame"}
    /\ ~cancel
    /\ cancel' = TRUE
    /\ UNCHANGED <<walkVars, pc, walk, lib_result>>

-----------------------------------------------------------------------------
(* vendor/auralis-dsp, tempo.rs: detect_tempo.  Tempi are in thousandths of  *)
(* a BPM; the flux of each frame comes from the FFT and is an input, one     *)
(* value per frame; threshold_multiplier is counted in halves.               *)

\* TempoConfig::default(), min_bpm and max_bpm in whole BPM
DefaultTempoConfig ==
    [n_fft |-> 1024, hop_length |-> 512, threshold_halves |-> 1,
     min_bpm |-> 60, max_bpm |-> 200]

\* compute_spectral_flux: one flux value for each frame_idx with
\* frame_idx + n_fft <= audio.len()
FluxFrames(audio_len, n_fft, hop_length) ==
    IF audio_len < n_fft THEN 0 ELSE (audio_len - n_fft) \div hop_length + 1

compute_spectral_flux(audio_len, n_fft, hop_length, frame_flux) ==
    SubSeq(frame_flux, 1, FluxFrames(audio_len, n_fft, hop_length))

\* flux_values[i] > mean_flux + threshold_multiplier * std_flux, with
\* n * std = sqrt(n * sum(x^2) - sum(x)^2)
AboveThreshold(flux_values, p, threshold_halves) ==
    LET n == Len(flux_values)
        d == 2 * (n * flux_values[p] - SumSeq(flux_values))
        spread == n * SumOfSquares(flux_values)
                    - SumSeq(flux_values) * SumSeq(flux_values)
    IN d > 0 /\ d * d > threshold_halves * threshold_halves * spread

\* detect_flux_peaks: the positions of the local maxima above the threshold
detect_flux_peaks(flux_values, threshold_halves) ==
    IF Len(flux_values) < 3 THEN {}
    ELSE {p \in 2..(Len(flux_values) - 1) :
            /\ flux_values[p] > flux_values[p - 1]
            /\ flux_values[p] > flux_values[p + 1]
            /\ AboveThreshold(flux_values, p, threshold_halves)}

SetMax(S) == CHOOSE x \in S : \A y \in S : y <= x
SetMin(S) == CHOOSE x \in S : \A y \in S : x <= y

\* 60 / (avg_interval * hop_length / sr), the intervals between consecutive
\* peaks summing to last - first
RawTempo(peaks, hop_length, sr) ==
    ScaleDiv(60 * sr * (Cardinality(peaks) - 1),
             (SetMax(peaks) - SetMin(peaks)) * hop_length, 3)

\* the octave candidates, in the order of the array
Candidates(raw_tempo) ==
    <<raw_tempo, raw_tempo \div 2, raw_tempo \div 3, raw_tempo \div 4,
      raw_tempo \div 6, raw_tempo \div 8, raw_tempo * 2>>

\* distance from 105 BPM plus 50 outside 70..140
Score(tempo) ==
    Abs(tempo - 105000) + (IF tempo >= 70000 /\ tempo <= 140000 THEN 0 ELSE 50000)

\* best_score = f64::MAX, above every score
F64Max == 2000000000

\* a loop that lets a later candidate of equal score replace the best
NotWorse(score, best_score) == score <= best_score

\* if score < best_score
Better(score, best_score) == score < best_score

\* the loop over the candidates from the i-th on: a candidate within
\* [min_bpm, max_bpm] whose score is better than best_score becomes the best
RECURSIVE BestCandidate(_, _, _, _, _)
BestCandidate(cands, i, best_tempo, best_score, config) ==
    IF i > Len(cands) THEN best_tempo
    ELSE IF /\ cands[i] >= config.min_bpm * 1000
            /\ cands[i] <= config.max_bpm * 1000
            /\ Better(Score(cands[i]), best_score)
         THEN BestCandidate(cands, i + 1, cands[i], Score(cands[i]), config)
         ELSE BestCandidate(cands, i + 1, best_tempo, best_score, config)

\* calculate_tempo_from_peaks: 120.0 on fewer than two peaks, else the best
\* of the octave candidates, 120.0 being the best before the loop
calculate_tempo_from_peaks(peaks, hop_length, sr, config) ==
    IF Cardinality(peaks) < 2 THEN 120000
    ELSE BestCandidate(Candidates(RawTempo(peaks, hop_length, sr)), 1, 120000,
                       F64Max, config)

\* detect_tempo: 120.0 on an empty or short buffer, on fewer than two flux
\* values and on fewer than two peaks; else the tempo of the peaks,
\* .max(min_bpm).min(max_bpm)
detect_tempo(audio_len, sr, config, frame_flux) ==
    LET flux_values == compute_spectral_flux(audio_len, config.n_fft,
                                             config.hop_length, frame_flux)
        peaks == detect_flux_peaks(flux_values, config.threshold_halves)
    IN IF audio_len = 0 \/ audio_len < config.n_fft THEN 120000
       ELSE IF Len(flux_values) < 2 THEN 120000
       ELSE IF Cardinality(peaks) < 2 THEN 120000
       ELSE Min(Max(calculate_tempo_from_peaks(peaks, config.hop_length, sr, config),
                    config.min_bpm * 1000),
                config.max_bpm * 1000)

-----------------------------------------------------------------------------
(* vendor/auralis-dsp, yin.rs: yin.  The signal is an impulse train, a       *)
(* sample of value `amp` at every index that is a multiple of `period` and   *)
(* 0 elsewhere (period 1 is a constant signal); a frame of it has its        *)
(* impulses at the indices equal to `phase` modulo `period`.  Frequencies    *)
(* are whole Hz, f0 is in thousandths of a Hz, AACF values in millionths.    *)

FRAME_LENGTH == 2048

\* the number of n in [0, m) with n = phase modulo period
ImpulsesBelow(m, phase, period) ==
    IF m <= phase THEN 0 ELSE (m - phase - 1) \div period + 1

ImpulsesIn(a, b, phase, period) ==
    ImpulsesBelow(b, phase, period) - ImpulsesBelow(a, phase, period)

\* compute_difference_function, df[tau]: the sum over i < n - tau of
\* (frame[i] - frame[i + tau])^2; a term is amp^2 when exactly one of the two
\* indices holds an impulse, and both do only when period divides tau
DifferenceFunction(fr, tau) ==
    IF tau % fr.period = 0 THEN 0
    ELSE fr.amp * fr.amp
           * (ImpulsesIn(0, FRAME_LENGTH - tau, fr.phase, fr.period)
              + ImpulsesIn(tau, FRAME_LENGTH, fr.phase, fr.period))

\* running_sum of cumulative_mean_normalization at tau
RunningSum(fr, tau) == SumSeq([i \in 1..tau |-> DifferenceFunction(fr, i)])

\* cumulative_mean_normalization, aacf[tau]: 1 at 0, 2 df / running_sum
\* clipped to [0, 2], and 2 on a running sum that is not above 1e-10
Aacf(fr, tau) ==
    IF tau = 0 THEN 1000000
    ELSE IF RunningSum(fr, tau) > 0
         THEN Clamp(ScaleDiv(2 * DifferenceFunction(fr, tau), RunningSum(fr, tau), 6),
                    0, 2000000)
         ELSE 2000000

\* aacf[tau] < threshold, threshold = TROUGH_THRESHOLD = 0.15 = 15 / 100
BelowThreshold(fr, tau) ==
    /\ RunningSum(fr, tau) > 0
    /\ 200 * DifferenceFunction(fr, tau) < 15 * RunningSum(fr, tau)

\* find_trough: the first lag in min_lag .. search_end - 1 below the
\* threshold, -1 for None
find_trough(fr, min_lag, max_lag) ==
    IF min_lag >= FRAME_LENGTH \/ min_lag >= max_lag THEN -1
    ELSE LET found == {tau \in min_lag..(Min(max_lag, FRAME_LENGTH) - 1) :
                         BelowThreshold(fr, tau)}
         IN IF found = {} THEN -1 ELSE SetMin(found)

\* (y1 - y3) / denom clamped to [-0.5, 0.5], in thousandths
ParabolaOffset(num, denom) ==
    IF 2 * Abs(num) >= Abs(denom)
    THEN (IF (num >= 0) = (denom > 0) THEN 500 ELSE -500)
    ELSE IF (num >= 0) = (denom > 0)
         THEN ScaleDiv(Abs(num), Abs(denom), 3)
         ELSE 0 - ScaleDiv(Abs(num), Abs(denom), 3)

\* parabolic_interpolate: the refined lag in thousandths of a sample
parabolic_interpolate(fr, tau) ==
    IF tau = 0 \/ tau >= FRAME_LENGTH - 1 THEN tau * 1000
    ELSE LET y1 == Aacf(fr, tau - 1)
             y2 == Aacf(fr, tau)
             y3 == Aacf(fr, tau + 1)
             denom == 2 * (y1 - 2 * y2 + y3)
         IN IF denom = 0 THEN tau * 1000
            ELSE tau * 1000 + ParabolaOffset(y1 - y3, denom)

\* process_frame: sr / refined_lag, 0.0 for an unvoiced frame
process_frame(fr, sr, min_lag, max_lag) ==
    LET tau == find_trough(fr, min_lag, max_lag)
    IN IF tau = -1 THEN 0
       ELSE ScaleDiv(sr * 1000, parabolic_interpolate(fr, tau), 3)

\* the frame of y that starts at `start`
YinFrame(y, start) ==
    [amp |-> y.amp, period |-> y.period,
     phase |-> (y.period - (start % y.period)) % y.period]

\* yin: the f0 contour of y, one value per frame
yin(y, sr, fmin, fmax) ==
    LET n_frames == (y.len - FRAME_LENGTH) \div HOP_LENGTH + 1
        min_lag == Max(sr \div fmax, 2)
        max_lag == Min(sr \div fmin, FRAME_LENGTH - 1)
    IN IF y.len < FRAME_LENGTH THEN <<0>>
       ELSE IF min_lag >= max_lag THEN [f \in 1..n_frames |-> 0]
       ELSE [f \in 1..n_frames |->
               process_frame(YinFrame(y, (f - 1) * HOP_LENGTH), sr, min_lag, max_lag)]

-----------------------------------------------------------------------------
(* vendor/auralis-dsp, bin/grpc_fingerprint_server.rs: the pitch stability  *)
(* of compute_25d_fingerprint, from the f0 contour of yin(audio, sr, 80.0,  *)
(* 400.0).  The contour is taken in whole Hz.                               *)

\* lines 134-147: 0.5 on an empty contour, else 1 - min(cv, 1) with cv the
\* standard deviation over the mean of all the estimates, 1.0 when the mean
\* is not positive
pitch_stability(f0_estimates) ==
    IF f0_estimates = <<>> THEN 500
    ELSE LET hz == [i \in 1..Len(f0_estimates) |-> f0_estimates[i] \div 1000]
             cv == IF SumSeq(hz) > 0 THEN CoeffVar(hz) ELSE 1000
         IN 1000 - Min(cv, 1000)

-----------------------------------------------------------------------------
(* vendor/auralis-dsp/src/chroma.rs, chroma_cqt.  The audio is a run-length  *)
(* buffer; the norm of a convolution is not computed from the samples: it is *)
(* exactly 0 on a window of zeros and is the positive `response` of the      *)
(* semitone on a window that holds a sample that is not zero.                *)

N_BINS == 252
BINS_PER_OCTAVE == 36

\* Q_FACTOR / FMIN = 34.66 / 32.7, in ten-thousandths
QOverFmin == 10599

\* 2^(k / 36) in thousandths, k = 0..35
OctaveStep ==
    <<1000, 1019, 1039, 1059, 1080, 1101, 1122, 1144, 1167, 1189, 1212, 1236,
      1260, 1284, 1309, 1335, 1361, 1387, 1414, 1442, 1470, 1498, 1527, 1557,
      1587, 1618, 1650, 1682, 1714, 1748, 1782, 1816, 1852, 1888, 1924, 1962>>

\* FMIN * 2^(bin / 36) / FMIN, in thousandths
cqt_frequency(bin) ==
    (2 ^ (bin \div BINS_PER_OCTAVE)) * OctaveStep[(bin % BINS_PER_OCTAVE) + 1]

\* create_filter_bank: (Q_FACTOR * sr / freq).ceil(), made even
KernelLen(sr, bin) ==
    LET filter_len == CeilDiv(QOverFmin * sr, cqt_frequency(bin) * 10)
    IN IF filter_len % 2 = 0 THEN filter_len ELSE filter_len + 1

\* convolve_cqt and convolve_single_bin: the number of frames
ChromaFrames(len) ==
    IF len >= HOP_LENGTH THEN (len - HOP_LENGTH) \div HOP_LENGTH + 1 ELSE 1

\* the guard of convolve_single_bin is start_idx + kernel_len > audio.len()
Fits(start_idx, kernel_len, len) == start_idx + kernel_len <= len

\* convolve_single_bin: the magnitude of one bin at one frame, 0.0 when the
\* kernel runs past the end of the audio
BinMagnitude(y, sr, bin, frame_idx, response) ==
    LET start_idx == frame_idx * HOP_LENGTH
        kernel_len == KernelLen(sr, bin)
    IN IF ~Fits(start_idx, kernel_len, BufLen(y)) THEN 0
       ELSE IF PeakRange(y, start_idx, Min(start_idx + kernel_len, BufLen(y))) = 0
            THEN 0
       ELSE response[(bin % 12) + 1]

\* fold_to_chroma: the column of one frame, the sum over the bins of each
\* semitone
FoldedColumn(y, sr, frame_idx, response) ==
    [s \in 1..12 |->
        SumSeq([o \in 1..(N_BINS \div 12) |->
                   BinMagnitude(y, sr, (o - 1) * 12 + s - 1, frame_idx, response)])]

\* normalize_chroma_inplace on one column, in millionths: every entry over
\* the sum of the column, floored at NORMALIZATION_EPS, under which an
\* all-zero column stays all zero
NormalizedColumn(column) ==
    LET frame_sum == SumSeq(column)
    IN [s \in 1..12 |->
           IF frame_sum > 0 THEN (column[s] * 1000000) \div frame_sum ELSE 0]

\* chroma_cqt: the columns of the chromagram, none for an empty signal
chroma_cqt(y, sr, response) ==
    IF BufLen(y) = 0 THEN <<>>
    ELSE [t \in 1..ChromaFrames(BufLen(y)) |->
             NormalizedColumn(FoldedColumn(y, sr, t - 1, response))]

-----------------------------------------------------------------------------
(* The calls of the single functions: the two walks, the end of              *)
(* analyze_fingerprint on a record as it stands at line 75, detect_tempo     *)
(* and yin.                                                                  *)

\* the most fields of a record that are not finite, short of all of them
MaxNonFinite == 2
\* the number of frames whose flux is given
MaxFluxLen == 5

RECURSIVE SubsetsUpTo(_, _)
SubsetsUpTo(S, k) ==
    IF k = 0 THEN {{}}
    ELSE SubsetsUpTo(S, k - 1)
           \cup {b \cup {f} : b \in SubsetsUpTo(S, k - 1), f \in S}

\* records with the fields of `bad` not finite
RecordWith(bad, v) == [f \in FieldNames |-> IF f \in bad THEN v ELSE 0]
Records ==
    {RecordWith(bad, v) :
        bad \in SubsetsUpTo(FieldNames, MaxNonFinite) \cup {FieldNames},
        v \in {NaN, Infinity}}

FluxLevels == {0, 1, 5}
TempoConfigs ==
    {DefaultTempoConfig,
     [DefaultTempoConfig EXCEPT !.min_bpm = 130],
     [DefaultTempoConfig EXCEPT !.min_bpm = 40, !.max_bpm = 100]}
TempoLengths ==
    {0, 512, 1024, 1536, 2560, 1024 + (MaxFluxLen - 1) * 512}

\* positions of flux peaks handed to calculate_tempo_from_peaks, and the hop
\* lengths: peaks 42 frames apart at a hop of 450 and 44100 Hz are 140 BPM
PeakSets == {{}, {7}, {1, 3}, {1, 43}, {1, 8, 15}, {2, 9, 40}, {1, 200}, {1, 2}}
HopLengths == {450, 512}

YinSignals ==
    [len : {1000, FRAME_LENGTH, FRAME_LENGTH + 2 * HOP_LENGTH},
     period : {1, 3, 4, 5, 8, 16},
     amp : {0, MaxAmp}]
\* signals handed to chroma_cqt: empty, steady, silent, and an impulse followed
\* by silence
ChromaLengths == {100, 1024, 2048}
ChromaSignals ==
    {<<>>}
    \cup {<<<<MaxAmp, n>>>> : n \in ChromaLengths}
    \cup {<<<<0, n>>>> : n \in ChromaLengths}
    \cup {<<<<MaxAmp, 1>>, <<0, n - 1>>>> : n \in ChromaLengths}
ChromaRates == {8000, 44100, 96000}
\* the norm of a convolution over a window that is not silent, per semitone
Responses == {[s \in 1..12 |-> 1], [s \in 1..12 |-> s]}
\* <<fmin, fmax>>
YinBounds == {<<400, 1900>>, <<400, 2000>>, <<500, 1000>>, <<3000, 5000>>}

InitFn ==
    /\ entry \in {"stft_walk", "tempo_walk", "validate", "detect_tempo", "octave",
                  "yin", "pitch_stability", "chroma"}
    /\ file = NoFile
    /\ magnitude_spec = <<>>
    /\ spec_analysis = <<>>
    /\ ran = <<>>
    /\ result = <<"none">>
    /\ status = 0
    /\ dsp = NoDsp
    /\ dsp_result = <<"none">>
    /\ par_call = NoPar
    /\ tasks = <<>>
    /\ slots = <<>>
    /\ returned = <<>>
    /\ warned = -1
    /\ cancel = FALSE
    /\ lib_result = <<"none">>
    /\ IF entry \in {"stft_walk", "tempo_walk"}
       THEN /\ shape \in SpectrumShapes
            /\ \E b \in WalkBuffers :
                  audio = [samples |-> b, sample_rate |-> 8000, channels |-> 1]
            /\ walk = WalkLocals(IF entry = "stft_walk" THEN "stft" ELSE "tempo")
            /\ pc = "walk_begin"
       ELSE /\ shape = FlatShape
            /\ audio = NoAudio
            /\ walk = NoWalk
            /\ pc = IF entry = "validate" THEN "validate" ELSE "lib_call"
    /\ IF entry = "validate" THEN fingerprint \in Records
       ELSE fingerprint = DefaultFingerprint
    /\ CASE entry = "validate" -> lib = [fn |-> "validate", fingerprint |-> fingerprint]
         [] entry = "detect_tempo" ->
              \E n \in TempoLengths, sr \in {8000, 44100}, c \in TempoConfigs,
                 fl \in [1..MaxFluxLen -> FluxLevels] :
                 lib = [fn |-> "detect_tempo", audio_len |-> n, sr |-> sr,
                        config |-> c, frame_flux |-> fl]
         [] entry = "octave" ->
              \E pk \in PeakSets, h \in HopLengths, sr \in {8000, 44100},
                 c \in TempoConfigs :
                 lib = [fn |-> "calculate_tempo_from_peaks", peaks |-> pk,
                        hop_length |-> h, sr |-> sr, config |-> c]
         [] entry = "pitch_stability" ->
              \E y \in YinSignals :
                 lib = [fn |-> "pitch_stability", y |-> y, sr |-> 8000]
         [] entry = "chroma" ->
              \E y \in ChromaSignals, sr \in ChromaRates, r \in Responses :
                 lib = [fn |-> "chroma_cqt", y |-> y, sr |-> sr, response |-> r]
         [] entry = "yin" ->
              \E y \in YinSignals, b \in YinBounds :
                 lib = [fn |-> "yin", y |-> y, sr |-> 8000, fmin |-> b[1],
                        fmax |-> b[2]]
         [] OTHER -> lib = NoLib

fnVars == <<entry, file, shape, audio, magnitude_spec, spec_analysis, ran,
            status, dsp, dsp_result, parVars, walk, cancel, lib>>

\* analyze_fingerprint, lines 75-80: the warning, then Ok(fingerprint)
Validate ==
    /\ pc = "validate"
    /\ warned' = ValidationLog(fingerprint)
    /\ result' = <<"Ok">>
    /\ pc' = "done"
    /\ UNCHANGED <<fnVars, fingerprint, lib_result>>

\* a call of detect_tempo
DetectTempo ==
    /\ pc = "lib_call"
    /\ lib.fn = "detect_tempo"
    /\ lib_result' = <<"Ok", detect_tempo(lib.audio_len, lib.sr, lib.config,
                                          lib.frame_flux)>>
    /\ pc' = "done"
    /\ UNCHANGED <<fnVars, fingerprint, result, warned>>

\* a call of calculate_tempo_from_peaks
CalculateTempo ==
    /\ pc = "lib_call"
    /\ lib.fn = "calculate_tempo_from_peaks"
    /\ lib_result' = <<"Ok", calculate_tempo_from_peaks(lib.peaks, lib.hop_length,
                                                        lib.sr, lib.config)>>
    /\ pc' = "done"
    /\ UNCHANGED <<fnVars, fingerprint, result, warned>>

\* step 3 of compute_25d_fingerprint: yin, then the pitch stability
PitchStability ==
    /\ pc = "lib_call"
    /\ lib.fn = "pitch_stability"
    /\ \E f0_estimates \in {yin(lib.y, lib.sr, 80, 400)} :
          lib_result' = <<"Ok", [f0_estimates |-> f0_estimates,
                                 pitch_stability |-> pitch_stability(f0_estimates)]>>
    /\ pc' = "done"
    /\ UNCHANGED <<fnVars, fingerprint, result, warned>>

\* a call of chroma_cqt
ChromaCqt ==
    /\ pc = "lib_call"
    /\ lib.fn = "chroma_cqt"
    /\ lib_result' = <<"Ok", chroma_cqt(lib.y, lib.sr, lib.response)>>
    /\ pc' = "done"
    /\ UNCHANGED <<fnVars, fingerprint, result, warned>>

\* a call of yin
Yin ==
    /\ pc = "lib_call"
    /\ lib.fn = "yin"
    /\ lib_result' = <<"Ok", yin(lib.y, lib.sr, lib.fmin, lib.fmax)>>
    /\ pc' = "done"
    /\ UNCHANGED <<fnVars, fingerprint, result, warned>>

NextFn ==
    \/ StftEnter
    \/ StftFrameBegin
    \/ StftFrameEnd
    \/ StftReturn
    \/ TempoEnter
    \/ TempoFrameBegin
    \/ TempoFrameEnd
    \/ TempoReturn
    \/ RequestCancel
    \/ Validate
    \/ DetectTempo
    \/ CalculateTempo
    \/ PitchStability
    \/ ChromaCqt
    \/ Yin

SpecFn == InitFn /\ [][NextFn]_vars

-----------------------------------------------------------------------------
(* Claims of the single functions, under SpecFn.                             *)

\* C11: once cancellation is requested while a frame loop runs, the call
\* ends with the outcome Cancelled and returns no partial result.
C11_CancelledAtBoundary ==
    (cancel /\ pc = "done") => lib_result = <<"Err", "Cancelled">>

\* C13: at every step of the average-spectrum walk and of the flux walk the
\* buffers of spectrum size that are alive are at most five, however many
\* frames have been walked, and none of them holds the data of a frame
\* before the last one processed.
C13_BoundedBuffers ==
    walk.fn # "none" =>
        /\ Cardinality(walk.held) <= 5
        /\ \A b \in walk.held : b.frame = 0 \/ b.frame >= walk.frame_count

\* a walk inside its twentieth frame or a later one
C13_Witness ==
    /\ walk.fn # "none"
    /\ pc = "in_frame"
    /\ walk.frame_count >= 19
    /\ \E b \in walk.held : b.frame = walk.frame_count + 1

\* C14: a record is reported valid exactly when all of its 25 fields are
\* finite, each counted once; the end of analyze_fingerprint returns Ok with
\* the record as it is, and logs the number of fields that are not finite
\* when there is one, raising no error.
C14_ValidIffAllFinite ==
    (entry = "validate" /\ pc = "done") =>
        /\ result = <<"Ok">>
        /\ fingerprint = lib.fingerprint
        /\ is_valid(fingerprint) <=> \A f \in FieldNames : IsFinite(fingerprint[f])
        /\ warned = IF \A f \in FieldNames : IsFinite(fingerprint[f]) THEN -1
                    ELSE Cardinality({f \in FieldNames : ~IsFinite(fingerprint[f])})

\* the record returned has phase_correlation, the last field counted, not
\* finite and every other field finite
C14_Witness ==
    /\ entry = "validate"
    /\ pc = "done"
    /\ result = <<"Ok">>
    /\ ~IsFinite(fingerprint.phase_correlation)
    /\ warned = 1

-----------------------------------------------------------------------------
(* Claims of the entry points, under Spec.                                   *)

\* caps on the projected memory that a configuration could set
MemoryCaps == {64 * 1024, 512 * 1024 * 1024}

\* the bytes of the f64 buffer alone, a lower bound of what the analysis holds
ProjectedBytes(samples) == 8 * BufLen(samples)

\* C12: an input whose projected memory use exceeds the configured cap is
\* refused with ResourceExhausted before any analysis stage runs.
C12_RefusedAboveCap ==
    \A cap \in MemoryCaps :
        (audio # NoAudio /\ ProjectedBytes(audio.samples) > cap) =>
            /\ ran = <<>>
            /\ result[1] # "Ok"
            /\ (Called /\ Finished => result = <<"Err", "ResourceExhausted">>)

\* C16: on an all-zero buffer long enough for two full frames, whose flux
\* does not rise from one frame to the next, tempo_bpm is the default 120
\* and no error is raised.
C16_FlatFluxDefaultTempo ==
    (/\ Silent(audio.samples)
     /\ BufLen(audio.samples) >= FFT_SIZE + HOP_LENGTH
     /\ Supported(audio.sample_rate)
     /\ Called
     /\ Finished) =>
        /\ result = <<"Ok">>
        /\ fingerprint.tempo_bpm = 120000

\* a packet that decoded to at least one frame
Decoded(p) == p.res = "ok" /\ p.cnt > 0

\* the packets the loop reads before it stops: those before the first one
\* that is neither decoded nor skipped
ReadPackets ==
    LET stops == {k \in 1..Len(file.packets) :
                     file.packets[k].res \notin {"ok", "decode_error"}}
    IN IF stops = {} THEN file.packets
       ELSE SubSeq(file.packets, 1,
                   (CHOOSE k \in stops : \A j \in stops : k <= j) - 1)

\* the loop stopped on an error that is not the end of the stream
LoopAborted ==
    /\ Len(ReadPackets) < Len(file.packets)
    /\ file.packets[Len(ReadPackets) + 1].res \notin {"io_error", "unsupported"}

\* the frames the decoder produced for the file, packet by packet
DecodedFrames == SelectSeq(ReadPackets, Decoded)

-----------------------------------------------------------------------------
(* Claims of the library functions, under SpecFn.                            *)

\* C18: detect_tempo returns a tempo within [config.min_bpm, config.max_bpm]
\* for every input and every configuration, its default paths included.
C18_TempoWithinConfig ==
    (lib.fn = "detect_tempo" /\ pc = "done") =>
        /\ lib_result[2] >= lib.config.min_bpm * 1000
        /\ lib_result[2] <= lib.config.max_bpm * 1000

\* C19: every fundamental frequency yin returns is 0 or lies within
\* [fmin, fmax].
C19_PitchWithinBounds ==
    (lib.fn = "yin" /\ pc = "done") =>
        \A i \in 1..Len(lib_result[2]) :
            \/ lib_result[2][i] = 0
            \/ /\ lib_result[2][i] >= lib.fmin * 1000
               /\ lib_result[2][i] <= lib.fmax * 1000

-----------------------------------------------------------------------------
(* Claims of compute_complete_fingerprint, under Spec.                       *)

\* C15: the fingerprint of compute_complete_fingerprint has the field set of
\* the fingerprint of analyze_fingerprint, and each of its fields lies in
\* the range the server declares for it.
C15_SameFieldsAndRanges ==
    dsp_result[1] = "Ok" =>
        /\ AudioFingerprintFields = FieldNames
        /\ \A f \in DOMAIN dsp_result[2] :
              /\ f \in UnitFields =>
                    dsp_result[2][f] >= 0 /\ dsp_result[2][f] <= 1000
              /\ f = "phase_correlation" =>
                    dsp_result[2][f] >= -1000 /\ dsp_result[2][f] <= 1000

\* C20: for two channels of equal length, the right the negation of the
\* left and the left not silent, the phase correlation is within 0.01 of
\* -1.
C20_AntiphaseCorrelation ==
    (/\ dsp.channels = 2
     /\ dsp_result[1] = "Ok"
     /\ Len(dsp.audio) % 2 = 0
     /\ \A i \in 1..(Len(dsp.audio) \div 2) :
           RightChannel(dsp.audio)[i] = 0 - LeftChannel(dsp.audio)[i]
     /\ \E i \in 1..(Len(dsp.audio) \div 2) : LeftChannel(dsp.audio)[i] # 0) =>
        dsp_result[2].phase_correlation <= -990

-----------------------------------------------------------------------------
(* Claims of the frame walks, under SpecFn.                                  *)

\* the offsets 0, HOP, 2 HOP, ... at which at least FFT_SIZE / 2 samples of
\* a buffer of n samples remain, every earlier one being such an offset too
EmittedOffsets(n) ==
    [k \in 1..(IF n < FFT_SIZE \div 2 THEN 0
               ELSE (n - FFT_SIZE \div 2) \div HOP_LENGTH + 1) |->
        (k - 1) * HOP_LENGTH]

\* C22: the averaging walk processes the frames at 0, HOP, 2 HOP, ... in
\* this order, a frame exactly when at least FFT_SIZE / 2 samples remain at
\* its offset and every earlier frame was processed; each processed frame
\* has FFT_SIZE entries, a short tail being padded with zeros; the walk
\* stops at the first offset with fewer than FFT_SIZE / 2 samples left.
C22_FrameWalk ==
    walk.fn = "stft" =>
        /\ Len(walk.processed) <= Len(EmittedOffsets(BufLen(audio.samples)))
        /\ \A k \in 1..Len(walk.processed) :
              /\ walk.processed[k].start = EmittedOffsets(BufLen(audio.samples))[k]
              /\ walk.processed[k].len = FFT_SIZE
              /\ walk.processed[k].real =
                    Min(FFT_SIZE, BufLen(audio.samples) - walk.processed[k].start)
        /\ pc \in {"walk_end", "done"} =>
              Len(walk.processed) = Len(EmittedOffsets(BufLen(audio.samples)))

\* the walk of a buffer of 3000 samples has ended after four frames, the
\* last two padded
C22_Witness ==
    /\ walk.fn = "stft"
    /\ pc = "done"
    /\ Len(walk.processed) = 4
    /\ walk.processed[4].real < FFT_SIZE
    /\ walk.processed[4].len = FFT_SIZE

\* C24: for n processed frames the flux series has n - 1 entries, no entry
\* compares a frame with the all-zero initial buffer, and every entry sums
\* over the same number of bins.
C24_FluxSeries ==
    (walk.fn = "tempo" /\ pc = "done" /\ walk.processed # <<>>) =>
        /\ Len(walk.flux) = Len(walk.processed) - 1
        /\ \A i, j \in 1..Len(walk.processed) :
              walk.processed[i].bins = walk.processed[j].bins

\* the candidates of a call within [min_bpm, max_bpm], by their place
InRangeCandidates ==
    {i \in 1..7 :
        /\ Candidates(RawTempo(lib.peaks, lib.hop_length, lib.sr))[i]
              >= lib.config.min_bpm * 1000
        /\ Candidates(RawTempo(lib.peaks, lib.hop_length, lib.sr))[i]
              <= lib.config.max_bpm * 1000}

\* |bpm - 105| + (0 if 70 <= bpm <= 140 else 50), in thousandths
OctaveCost(bpm) ==
    (IF bpm >= 105000 THEN bpm - 105000 ELSE 105000 - bpm)
      + (IF 70000 <= bpm /\ bpm <= 140000 THEN 0 ELSE 50000)

\* C25: with two peaks or more, calculate_tempo_from_peaks returns the
\* candidate among raw_bpm * {1, 1/2, 1/3, 1/4, 1/6, 1/8, 2} that lies in
\* [min_bpm, max_bpm] and minimizes |bpm - 105| + (0 if 70 <= bpm <= 140 else
\* 50), the earliest such candidate on a tie, and 120 when no candidate lies
\* in the range.
C25_OctaveCorrection ==
    (/\ lib.fn = "calculate_tempo_from_peaks"
     /\ pc = "done"
     /\ Cardinality(lib.peaks) >= 2) =>
        LET cands == Candidates(RawTempo(lib.peaks, lib.hop_length, lib.sr))
        IN IF InRangeCandidates = {} THEN lib_result = <<"Ok", 120000>>
           ELSE \E i \in InRangeCandidates :
                   /\ lib_result = <<"Ok", cands[i]>>
                   /\ \A j \in InRangeCandidates :
                         /\ OctaveCost(cands[i]) <= OctaveCost(cands[j])
                         /\ OctaveCost(cands[i]) = OctaveCost(cands[j]) => i <= j

\* a raw tempo of 140 BPM, whose half, 70 BPM, has the same cost: the call
\* returned 140
C25_Witness ==
    /\ lib.fn = "calculate_tempo_from_peaks"
    /\ pc = "done"
    /\ lib.peaks = {1, 43}
    /\ lib.hop_length = 450
    /\ lib.sr = 44100
    /\ lib.config = DefaultTempoConfig
    /\ lib_result = <<"Ok", 140000>>

-----------------------------------------------------------------------------
(* Claims of the spectrum of analyze_fingerprint, under Spec.                *)

\* C23: the magnitude spectrum of the single-frame FFT has FFT_SIZE / 2
\* entries, one per frequency bin, so that the total energy is summed over
\* the bins the band energies are summed over.
C23_SpectrumMatchesBins ==
    magnitude_spec # <<>> =>
        /\ BufLen(magnitude_spec) = NumFreqs
        /\ TotalEnergy(magnitude_spec) = SumRange(magnitude_spec, 0, NumFreqs)

-----------------------------------------------------------------------------
(* Claims of the pitch stability, under SpecFn.                              *)

Voiced(f0) == f0 > 0

\* C21: pitch_stability is computed from the voiced frames only, and is 0.5
\* whenever fewer than two frames are voiced.
C21_PitchStabilityOfVoiced ==
    (lib.fn = "pitch_stability" /\ pc = "done") =>
        LET voiced == SelectSeq(lib_result[2].f0_estimates, Voiced)
        IN IF Len(voiced) < 2 THEN lib_result[2].pitch_stability = 500
           ELSE lib_result[2].pitch_stability = pitch_stability(voiced)

-----------------------------------------------------------------------------
(* Claims of the temporal fields of analyze_fingerprint, under Spec.         *)

\* the buffer is one impulse every half second, from the first sample on
IsClickTrain(samples, sr) ==
    /\ sr % 2 = 0
    /\ BufLen(samples) >= sr
    /\ samples = ClickTrain(sr \div 2, BufLen(samples) \div (sr \div 2))

\* C27: for a click train of 2 Hz, one impulse every 0.5 s, analyze_fingerprint
\* reports a tempo_bpm within 120 +/- 5.
C27_ClickTrainTempo ==
    (/\ Called
     /\ Finished
     /\ result = <<"Ok">>
     /\ IsClickTrain(audio.samples, audio.sample_rate)) =>
        /\ fingerprint.tempo_bpm >= 115000
        /\ fingerprint.tempo_bpm <= 125000

\* 20 * log10(rms) of a buffer that is not silent, in dB, rounded down
RmsDb(samples) == DeciLog(SumSq(samples), FullScaleSq(BufLen(samples)))

\* C28: a steady input at half the full scale, about -6 dB, has silence_ratio
\* 0, and silence_ratio is 1 only for a buffer whose rms level is below
\* -60 dB.
C28_SilenceRatioOfAudible ==
    (Called /\ Finished /\ result = <<"Ok">>) =>
        /\ audio.samples = <<<<HalfScale, BufLen(audio.samples)>>>> =>
              fingerprint.silence_ratio = 0
        /\ fingerprint.silence_ratio = 1000 =>
              \/ SumSq(audio.samples) = 0
              \/ RmsDb(audio.samples) < -60

-----------------------------------------------------------------------------
(* Claims of the channels of compute_complete_fingerprint, under Spec.       *)

\* the whole frames of the left channel: as many as the right channel has
WholeFrames(a) == SubSeq(LeftChannel(a), 1, Len(a) \div 2)

\* C29: for channels = 2 every accepted buffer is split into a left and a
\* right channel of the length of the mono downmix, and stereo_width and
\* phase_correlation are computed from them: an odd number of interleaved
\* samples does not fall back to the defaults (0, 1) of a mono buffer.
C29_StereoChannelsEqual ==
    (dsp.channels = 2 /\ dsp_result[1] = "Ok") =>
        /\ Len(LeftChannel(dsp.audio)) = Len(RightChannel(dsp.audio))
        /\ Len(LeftChannel(dsp.audio)) = Len(MonoDownmix(dsp.audio))
        /\ dsp_result[2].stereo_width =
              compute_stereo_width(WholeFrames(dsp.audio), RightChannel(dsp.audio))
        /\ dsp_result[2].phase_correlation =
              compute_phase_correlation(WholeFrames(dsp.audio),
                                        RightChannel(dsp.audio))

-----------------------------------------------------------------------------
(* Claims of the decode loop of load_audio_sync, under Spec.                 *)

\* the mono buffer of the decoded frames
MonoOf(frames) ==
    [j \in 1..Len(frames) |->
        <<IF file.channels = 1 THEN frames[j].l
          ELSE (frames[j].l + frames[j].r) \div 2,
          frames[j].cnt>>]

\* C30 as stated: a decode error skips the packet, an I/O or unsupported error
\* of next_packet ends the loop and the load succeeds with the samples decoded
\* so far, or fails with InvalidAudio if there are none; any other error ends
\* the load with DecodingError and no samples.
C30_LoopEndSucceeds ==
    (entry = "http" /\ file.fault = "none" /\ pc # "request") =>
        IF LoopAborted
        THEN audio = NoAudio /\ result = <<"Err", "DecodingError">>
        ELSE IF DecodedFrames = <<>>
        THEN audio = NoAudio /\ result = <<"Err", "InvalidAudio">>
        ELSE audio # NoAudio /\ audio.samples = MonoOf(DecodedFrames)

\* C30: a decode error skips the packet, an I/O or unsupported error of
\* next_packet ends the loop and the load goes on to its two checks: it
\* succeeds with the samples decoded so far when there are some and all are
\* finite, and fails with InvalidAudio otherwise; any other error ends the
\* load with DecodingError and no samples.
C30_DecodeLoopErrors ==
    (entry = "http" /\ file.fault = "none" /\ pc # "request") =>
        IF LoopAborted
        THEN audio = NoAudio /\ ran = <<>> /\ result = <<"Err", "DecodingError">>
        ELSE IF DecodedFrames = <<>>
                \/ \E j \in 1..Len(DecodedFrames) : ~DecodedFrames[j].finite
        THEN audio = NoAudio /\ ran = <<>> /\ result = <<"Err", "InvalidAudio">>
        ELSE audio # NoAudio /\ audio.samples = MonoOf(DecodedFrames)

\* a file whose first packet fails with a decode error and whose third read
\* fails with an I/O error has been loaded as its second packet alone
C30_Witness ==
    /\ entry = "http"
    /\ pc = "call"
    /\ Len(file.packets) = 4
    /\ file.packets[1].res = "decode_error"
    /\ file.packets[3].res = "io_error"
    /\ file.packets[4].res = "ok"
    /\ audio.samples = <<<<3, LongLen>>>>

-----------------------------------------------------------------------------
(* Claims of the chromagram, under SpecFn.                                   *)

\* C26: every column of the chromagram of an input that is not silent sums
\* to 1 within 0.01 and has its 12 entries in [0, 1], at every sample rate
\* and length, the last frames included, where kernels run past the end of
\* the audio.
C26_ChromaColumnsSumToOne ==
    (/\ lib.fn = "chroma_cqt"
     /\ pc = "done"
     /\ Peak(lib.y) > 0) =>
        \A t \in 1..Len(lib_result[2]) :
            /\ \A s \in 1..12 : /\ lib_result[2][t][s] >= 0
                                 /\ lib_result[2][t][s] <= 1000000
            /\ SumSeq(lib_result[2][t]) >= 990000
            /\ SumSeq(lib_result[2][t]) <= 1010000

====
